---- MODULE Spec2Model ----
(***************************************************************************)
(* Provably-fair shuffle core of blackjack-premium (engine/probablyFair.ts, *)
(* whose text is carried in src/BENCHMARK_RESULTS.md lines 361-687).        *)
(*                                                                         *)
(* SHA-256 is not computed.  The first four bytes of the digest of each     *)
(* message seed + counter that the seeds below can ask for are tabulated in *)
(* Sha256Heads, as SHA-256 gives them; FirstWord reads them in the byte     *)
(* order of the platform.  The digests of the texts hashed whole (hashSeed) *)
(* are tabulated in Sha256Digests.  A text outside the tables has no value. *)
(***************************************************************************)
EXTENDS Integers, Sequences, FiniteSets, Bags, TLC

VARIABLES
    calls,          \* the bag of pending and settled shuffle/verify calls
    published,      \* a finished shuffle handed to a verifier (NoPublication when none)
    littleEndian,   \* the byte order of the platform's typed arrays
    hashAvailable,  \* whether crypto.subtle.digest works on this platform
    proof,          \* the ShuffleProof artifact in transit (NoProof when none)
    origin,         \* the artifact as generateShuffleProof returned it
    tampered,       \* fields of the artifact replaced since it was generated
    outcome,        \* result of the last verifyShuffleProof (NoOutcome when none)
    clock,          \* the wall clock read by new Date()
    seedCall,       \* the last generateSeed call: argument, random bytes, outcome
    hashCall,       \* the last hashSeed call: argument and outcome
    viewCall,       \* one digest read through Uint32Array on two kinds of platform
    proofCall,      \* the last generateShuffleProof call: argument, random bytes, outcome
    pass,           \* one Fisher-Yates pass whose indices j are chosen freely in 0..i
    bank,           \* a player's balance and the last two betting calls made on it
    dealer          \* one playDealerHand call: its arguments, locals and position

vars == <<calls, published, littleEndian, hashAvailable, proof, origin, tampered, outcome, clock,
          seedCall, hashCall, viewCall, proofCall, pass, bank, dealer>>

shuffleVars == <<calls, published, littleEndian, hashAvailable>>

codecVars == <<seedCall, hashCall>>

gameVars == <<viewCall, pass, bank, dealer>>

proofVars == <<proof, origin, tampered, outcome, clock, proofCall, codecVars, gameVars>>

----------------------------------------------------------------------------
(* Bounds *)

MaxDeck == 3        \* longest input deck
MaxCalls == 2       \* calls that may be in flight together
MaxClock == 2       \* instants the wall clock runs through
MaxPass == 5        \* longest deck of a pass with freely chosen indices
MaxBets == 2        \* betting calls made on one balance
MaxAvailable == 3   \* cards the dealer may draw from

----------------------------------------------------------------------------
(* Text: a string is a sequence of one-character strings *)

Rep(ch, n) == [k \in 1..n |-> ch]

LowerHex == {"0", "1", "2", "3", "4", "5", "6", "7", "8", "9",
             "a", "b", "c", "d", "e", "f"}

ToLowerChar(ch) ==
    CASE ch = "A" -> "a" [] ch = "B" -> "b" [] ch = "C" -> "c"
      [] ch = "D" -> "d" [] ch = "E" -> "e" [] ch = "F" -> "f"
      [] ch = "G" -> "g" [] OTHER -> ch

ToLowerCase(s) == [k \in 1..Len(s) |-> ToLowerChar(s[k])]

SEED_BYTES == 32
SeedChars == 64

\* /^[a-f0-9]{64}$/i.test(s)
IsSeedFormat(s) ==
    /\ Len(s) = SeedChars
    /\ \A k \in 1..Len(s) : ToLowerChar(s[k]) \in LowerHex

DecimalDigit(d) ==
    CASE d = 0 -> "0" [] d = 1 -> "1" [] d = 2 -> "2" [] d = 3 -> "3"
      [] d = 4 -> "4" [] d = 5 -> "5" [] d = 6 -> "6" [] d = 7 -> "7"
      [] d = 8 -> "8" [] d = 9 -> "9"

RECURSIVE NumberToString(_)
NumberToString(n) ==
    IF n < 10 THEN <<DecimalDigit(n)>>
    ELSE NumberToString(n \div 10) \o <<DecimalDigit(n % 10)>>

PadStart(s, width, ch) ==
    IF Len(s) >= width THEN s ELSE Rep(ch, width - Len(s)) \o s

CounterDigits == 10

\* seed + seedCounter.toString().padStart(10, '0')
SeedWithCounter(seed, seedCounter) ==
    seed \o PadStart(NumberToString(seedCounter), CounterDigits, "0")

----------------------------------------------------------------------------
(* Seeds the callers pass *)

SeedLower == Rep("a", SeedChars)
SeedUpper == Rep("A", SeedChars)
SeedShort == Rep("a", SeedChars - 1)
SeedNonHex == <<"g">> \o Rep("a", SeedChars - 1)

\* other texts handed to generateSeed and to hashSeed: one character too long,
\* mixed letter case, and not hexadecimal
SeedLong == Rep("a", SeedChars + 1)
SeedMixed == <<"A", "b", "C", "d", "E", "f", "0", "9">> \o Rep("F", SeedChars - 8)
NotHexText == <<"n", "o", "t", "-", "h", "e", "x">>

\* '2' + 55 zeros + 'a085f781': SHA-256 of this seed + '0000000000' begins ff ff ff ff
SeedAllOnes == <<"2">> \o Rep("0", SeedChars - 9) \o <<"a", "0", "8", "5", "f", "7", "8", "1">>

Seeds == {SeedLower, SeedUpper, SeedAllOnes, SeedShort, SeedNonHex}

ValidSeeds == {s \in Seeds : IsSeedFormat(s)}

\* the seeds of callers that run side by side: every accepted seed and one refused
ConcurrentSeeds == ValidSeeds \cup {SeedNonHex}

----------------------------------------------------------------------------
(* Seeds written from random bytes *)

HexDigit(d) ==
    CASE d < 10 -> DecimalDigit(d)
      [] d = 10 -> "a" [] d = 11 -> "b" [] d = 12 -> "c"
      [] d = 13 -> "d" [] d = 14 -> "e" [] d = 15 -> "f"

\* b.toString(16)
RECURSIVE ToString16(_)
ToString16(b) ==
    IF b < 16 THEN <<HexDigit(b)>>
    ELSE ToString16(b \div 16) \o <<HexDigit(b % 16)>>

\* Array.from(view).map(b => b.toString(16).padStart(2, '0')).join('')
RECURSIVE BufferToHex(_)
BufferToHex(bytes) ==
    IF Len(bytes) = 0 THEN <<>>
    ELSE PadStart(ToString16(Head(bytes)), 2, "0") \o BufferToHex(Tail(bytes))

\* what crypto.getRandomValues may fill the SEED_BYTES bytes with
ByteArrays == {[k \in 1..SEED_BYTES |-> (b * k) % 256] : b \in {0, 7, 255}}

\* what crypto.getRandomValues gives a shuffleDeckWithProof call
DeckBytes == [k \in 1..SEED_BYTES |-> (7 * k) % 256]

----------------------------------------------------------------------------
(* JavaScript values held in arrays: non-negative numbers, undefined, null *)

Undefined == -1
Null == -2

\* Array.from({ length: n }, (_, i) => i): the index deck the shuffle is documented for
IndexDeck(n) == [k \in 1..n |-> k - 1]

\* a deck in which every value occurs twice, as in a shoe of several decks
PairedDeck(n) == [k \in 1..n |-> (k - 1) \div 2]

IndexDecks == {IndexDeck(n) : n \in 0..MaxDeck}

Decks == IndexDecks \cup {PairedDeck(MaxDeck)}

DeckValues == 0..(MaxDeck - 1)

\* arr[k] for a 0-based index k: undefined outside the array
JsGet(arr, k) == IF k >= 0 /\ k < Len(arr) THEN arr[k + 1] ELSE Undefined

\* arr[k] = v for a 0-based index k: the array grows when k is past its end
JsSet(arr, k, v) ==
    IF k < Len(arr) THEN [arr EXCEPT ![k + 1] = v]
    ELSE [n \in 1..(k + 1) |->
            IF n <= Len(arr) THEN arr[n] ELSE IF n = k + 1 THEN v ELSE Undefined]

\* [arr[i], arr[j]] = [arr[j], arr[i]]
SwapElements(arr, i, j) ==
    LET atJ == JsGet(arr, j)
        atI == JsGet(arr, i)
    IN  JsSet(JsSet(arr, i, atJ), j, atI)

\* JSON.stringify of one array element: undefined and null both print as null
JsonElement(x) == IF x = Undefined THEN Null ELSE x

\* JSON.stringify(arr), as the sequence of the element texts
JsonStringify(arr) == [k \in 1..Len(arr) |-> JsonElement(arr[k])]

----------------------------------------------------------------------------
(* 32-bit digest words, kept as two 16-bit halves <<hi, lo>> *)

Half == 65536

AllOnes == <<65535, 65535>>

\* view[0] / 0xffffffff < 1
BelowOne(w) == w # AllOnes

\* Double arithmetic of seededRandom and of the loop body.  A double is kept
\* as a 53-bit significand in limbs of 18 bits, least significant first.
Chunk == 262144

\* bit t of the word, t = 0 the most significant of its 32 bits
WordBit(w, t) ==
    IF t < 16 THEN (w[1] \div 2^(15 - t)) % 2 ELSE (w[2] \div 2^(31 - t)) % 2

RECURSIVE BitLength(_)
BitLength(x) == IF x = 0 THEN 0 ELSE 1 + BitLength(x \div 2)

\* the zero bits before the first one bit of a word other than 0
LeadingZeros(w) == IF w[1] > 0 THEN 16 - BitLength(w[1]) ELSE 32 - BitLength(w[2])

\* binary digits from..to of view[0] / 0xffffffff, counted from its first one
\* digit, as a number: the quotient is 0.www... in binary, w the 32 bits of
\* view[0] repeated, z the zero bits before the first one
RECURSIVE QuotientDigits(_, _, _, _)
QuotientDigits(w, z, from, to) ==
    IF from > to THEN 0
    ELSE 2 * QuotientDigits(w, z, from, to - 1) + WordBit(w, (z + to - 1) % 32)

\* the limbs with the carries moved up
RECURSIVE Carried(_, _)
Carried(limbs, carry) ==
    IF Len(limbs) = 0 THEN <<>>
    ELSE LET sum == Head(limbs) + carry
         IN  <<sum % Chunk>> \o Carried(Tail(limbs), sum \div Chunk)

\* the number of binary digits of a number in limbs
LimbsBitLength(limbs) ==
    IF \A k \in 1..Len(limbs) : limbs[k] = 0 THEN 0
    ELSE LET top == CHOOSE k \in 1..Len(limbs) :
                        limbs[k] # 0 /\ \A m \in (k + 1)..Len(limbs) : limbs[m] = 0
         IN  18 * (top - 1) + BitLength(limbs[top])

\* view[0] / 0xffffffff as a double: the first 53 digits of the quotient,
\* rounded to nearest by the 54th (the digits after it are never all zero)
QuotientSignificand(w, z) ==
    Carried(<<QuotientDigits(w, z, 36, 53) + QuotientDigits(w, z, 54, 54),
              QuotientDigits(w, z, 18, 35),
              QuotientDigits(w, z, 1, 17),
              0>>, 0)

\* a product in limbs rounded to a double: to 53 digits, to nearest, ties to
\* the even significand
RoundedTo53(limbs) ==
    LET drop == LimbsBitLength(limbs) - 53
    IN  IF drop <= 0 THEN limbs
        ELSE LET rest == limbs[1] % 2^drop
                 odd == (limbs[1] \div 2^drop) % 2 = 1
                 up == rest > 2^(drop - 1) \/ (rest = 2^(drop - 1) /\ odd)
             IN  Carried(<<limbs[1] - rest + (IF up THEN 2^drop ELSE 0),
                           limbs[2], limbs[3], limbs[4]>>, 0)

\* Math.floor((view[0] / 0xffffffff) * n) in double arithmetic, for n < 2^13:
\* the quotient is rounded to a double, the product is rounded to a double
\* and then floored
ScaledIndex(w, n) ==
    IF w = <<0, 0>> THEN 0
    ELSE LET z == LeadingZeros(w)
             significand == QuotientSignificand(w, z)
             product == RoundedTo53(Carried([k \in 1..4 |-> significand[k] * n], 0))
             above36 == product[3] + product[4] * Chunk
         IN  IF z + 17 > 30 THEN 0 ELSE above36 \div 2^(z + 17)

----------------------------------------------------------------------------
(* The hash primitive seen by seededRandom *)

DigitValue(ch) ==
    CASE ch = "0" -> 0 [] ch = "1" -> 1 [] ch = "2" -> 2 [] ch = "3" -> 3
      [] ch = "4" -> 4 [] ch = "5" -> 5 [] ch = "6" -> 6 [] ch = "7" -> 7
      [] ch = "8" -> 8 [] ch = "9" -> 9

RECURSIVE DecimalValue(_)
DecimalValue(s) ==
    IF Len(s) = 0 THEN 0
    ELSE 10 * DecimalValue(SubSeq(s, 1, Len(s) - 1)) + DigitValue(s[Len(s)])

\* The first four bytes of SHA-256(text + counter as 10 digits) for the
\* counters 0..15, in that order, for every seed text the model shuffles with
Sha256Heads(text) ==
    CASE text = SeedLower
        -> << <<126, 50, 230, 101>>, <<171, 147, 231, 87>>, <<47, 243, 139, 88>>, <<253, 184, 37, 211>>,
           <<252, 52, 139, 114>>, <<45, 92, 143, 38>>, <<56, 248, 228, 126>>, <<142, 109, 14, 81>>,
           <<26, 127, 232, 182>>, <<126, 104, 57, 62>>, <<232, 181, 254, 26>>, <<160, 35, 16, 244>>,
           <<191, 221, 96, 206>>, <<70, 217, 196, 86>>, <<52, 45, 134, 66>>, <<249, 136, 34, 252>> >>
      [] text = SeedUpper
        -> << <<160, 34, 217, 101>>, <<203, 89, 45, 1>>, <<196, 217, 51, 99>>, <<200, 169, 93, 52>>,
           <<209, 21, 58, 35>>, <<47, 215, 21, 26>>, <<186, 255, 236, 51>>, <<25, 77, 89, 39>>,
           <<97, 25, 184, 25>>, <<171, 149, 104, 96>>, <<140, 169, 182, 24>>, <<149, 163, 99, 161>>,
           <<214, 74, 51, 44>>, <<178, 144, 221, 238>>, <<233, 32, 168, 193>>, <<108, 178, 138, 35>> >>
      [] text = SeedAllOnes
        -> << <<255, 255, 255, 255>>, <<50, 48, 158, 47>>, <<191, 251, 196, 181>>, <<234, 224, 56, 180>>,
           <<69, 234, 137, 113>>, <<165, 78, 10, 73>>, <<72, 129, 249, 163>>, <<19, 3, 201, 5>>,
           <<119, 122, 229, 185>>, <<48, 183, 173, 245>>, <<176, 226, 241, 157>>, <<152, 98, 211, 94>>,
           <<11, 2, 194, 161>>, <<3, 186, 184, 77>>, <<14, 78, 138, 193>>, <<129, 244, 116, 47>> >>
      [] text = BufferToHex([k \in 1..SEED_BYTES |-> (0 * k) % 256])
        -> << <<88, 242, 170, 156>>, <<33, 185, 51, 119>>, <<141, 110, 78, 158>>, <<174, 2, 66, 50>>,
           <<24, 50, 185, 209>>, <<53, 73, 94, 28>>, <<203, 206, 182, 216>>, <<166, 252, 212, 132>>,
           <<20, 189, 139, 191>>, <<101, 123, 212, 129>>, <<10, 13, 60, 115>>, <<193, 25, 95, 9>>,
           <<83, 194, 126, 61>>, <<240, 130, 174, 224>>, <<181, 62, 20, 139>>, <<36, 248, 68, 111>> >>
      [] text = BufferToHex([k \in 1..SEED_BYTES |-> (7 * k) % 256])
        -> << <<138, 215, 7, 233>>, <<86, 12, 37, 87>>, <<249, 83, 5, 209>>, <<105, 216, 190, 90>>,
           <<168, 56, 167, 222>>, <<141, 225, 73, 164>>, <<183, 92, 255, 14>>, <<60, 69, 12, 29>>,
           <<160, 15, 241, 114>>, <<44, 89, 17, 133>>, <<71, 32, 246, 39>>, <<140, 41, 31, 131>>,
           <<9, 222, 160, 208>>, <<233, 81, 69, 199>>, <<223, 61, 1, 242>>, <<185, 39, 136, 168>> >>
      [] text = BufferToHex([k \in 1..SEED_BYTES |-> (255 * k) % 256])
        -> << <<77, 113, 23, 66>>, <<64, 153, 140, 0>>, <<81, 138, 189, 114>>, <<83, 67, 254, 232>>,
           <<139, 11, 102, 240>>, <<149, 116, 184, 155>>, <<137, 241, 220, 96>>, <<39, 6, 71, 176>>,
           <<209, 225, 187, 148>>, <<66, 92, 228, 60>>, <<152, 21, 120, 244>>, <<35, 64, 20, 139>>,
           <<206, 82, 38, 241>>, <<95, 41, 195, 252>>, <<212, 241, 170, 233>>, <<229, 157, 125, 78>> >>

\* the first four bytes of crypto.subtle.digest('SHA-256', msg), for
\* msg = seed text + 10 counter digits
Sha256Head(msg) ==
    LET text == SubSeq(msg, 1, Len(msg) - CounterDigits)
        n == DecimalValue(SubSeq(msg, Len(msg) - CounterDigits + 1, Len(msg)))
    IN  Sha256Heads(text)[n + 1]

\* new Uint32Array(hashBuffer)[0]: the first four bytes of the buffer in the
\* byte order of the platform, as <<hi, lo>>
Uint32View(bytes, little) ==
    IF little
    THEN <<bytes[4] * 256 + bytes[3], bytes[2] * 256 + bytes[1]>>
    ELSE <<bytes[1] * 256 + bytes[2], bytes[3] * 256 + bytes[4]>>

\* new Uint32Array(await crypto.subtle.digest('SHA-256', msg))[0] on a platform
\* of the given byte order
FirstWord(little, msg) == Uint32View(Sha256Head(msg), little)

----------------------------------------------------------------------------
(* Asynchronous calls of seededShuffle and of the functions that await it.   *)
(* A call runs without interruption up to its next await; calls and the      *)
(* caller's own code interleave only at the awaits.  pc tells where a call   *)
(* stands: "hashing" at the await of hashSeed, "await" at the await of the   *)
(* digest of a draw, "resume" when the seededShuffle call it awaits has      *)
(* settled and its own continuation has not run yet, "returned" or "thrown"  *)
(* when its promise has settled.  The calls form a bag of records, one       *)
(* record holding the arguments and locals of one call.                      *)

\* deck is the caller's array as it is now and original its elements when the
\* call was made; aliased tells whether shuffled is that same array; cards is
\* the argument of shuffleCardsWithSeed, whose deck is the array of indices
NewCall(op, deck, claimed, seed) ==
    [ op |-> op, pc |-> "entered",
      deck |-> deck, seed |-> seed, claimed |-> claimed,
      original |-> deck, cards |-> <<>>, aliased |-> FALSE,
      shuffled |-> <<>>, seedCounter |-> 0, i |-> 0, pending |-> <<>>, requested |-> 0,
      lastWord |-> <<0, 0>>, lastI |-> 0, lastJ |-> 0,
      result |-> <<>>, verdict |-> FALSE, error |-> "" ]

InvalidSeedFormat == "Invalid seed format. Expected 64 hexadecimal characters."

\* the reason crypto.subtle.digest rejects with on a platform without it
DigestRejected == "digest rejected"

NoPublication == [deck |-> <<>>, seed |-> <<>>, result |-> <<>>, made |-> FALSE]

Only(rec) == SetToBag({rec})

RECURSIVE CountersOf(_, _)
CountersOf(bag, recs) ==
    IF recs = {} THEN 0
    ELSE LET r == CHOOSE x \in recs : TRUE
         IN  CopiesIn(r, bag) * r.seedCounter + CountersOf(bag, recs \ {r})

\* the counter a draw of call rec reads: a counter that all calls advance
DrawCounterShared(others, rec) == rec.seedCounter + CountersOf(others, BagToSet(others))

\* the counter a draw of call rec reads: the seedCounter local to that call;
\* others are the calls that exist beside it
DrawCounter(others, rec) == rec.seedCounter

\* the comparison made against the caller's deck instead of the reproduction
MatchesInput(rec) == JsonStringify(rec.deck) = JsonStringify(rec.claimed)

\* JSON.stringify(reproducedShuffle) === JSON.stringify(shuffledDeck)
MatchesClaimed(rec) == JsonStringify(rec.shuffled) = JsonStringify(rec.claimed)

\* the mapping turned round: card k placed at position shuffledIndices[k]
MapCardsInverse(cards, shuffledIndices) ==
    [k \in 1..Len(shuffledIndices) |->
        IF \E m \in 1..Len(shuffledIndices) : shuffledIndices[m] = k - 1
        THEN JsGet(cards, (CHOOSE m \in 1..Len(shuffledIndices) : shuffledIndices[m] = k - 1) - 1)
        ELSE Undefined]

\* shuffledIndices.map(i => cards[i])
MapCards(cards, shuffledIndices) ==
    [k \in 1..Len(shuffledIndices) |-> JsGet(cards, shuffledIndices[k])]

\* return shuffled: the promise of seededShuffle is fulfilled; a function that
\* awaits it runs on in a later step
Completed(rec) ==
    IF rec.op = "seededShuffle"
    THEN [rec EXCEPT !.pc = "returned", !.result = rec.shuffled]
    ELSE [rec EXCEPT !.pc = "resume"]

\* a rejection of seededShuffle, or of the call a function awaits, rec.error
\* being the reason: it reaches the caller of seededShuffle at once, and the
\* function that awaits when that function runs on
Failed(rec) ==
    IF rec.op = "seededShuffle"
    THEN [rec EXCEPT !.pc = "thrown"]
    ELSE [rec EXCEPT !.pc = "resume"]

\* a rejection that escapes verifyShuffleWithSeed
FailedUncaught(rec) == [rec EXCEPT !.pc = "thrown"]

\* catch { return false }
Caught(rec) == [rec EXCEPT !.pc = "returned", !.verdict = FALSE]

\* the functions that map the shuffled indices to the caller's cards
CardOps == {"shuffleCardsWithSeed", "shuffleDeckWithSeed", "shuffleDeckWithProof"}

\* the rest of a function after its await of seededShuffle: the comparison
\* with shuffledDeck as it is now in verifyShuffleWithSeed, the mapping of the
\* indices to the cards as they are now in shuffleCardsWithSeed
Resumed(rec) ==
    IF rec.op = "verifyShuffleWithSeed"
    THEN IF rec.error # "" THEN Caught(rec)
         ELSE [rec EXCEPT !.pc = "returned", !.verdict = MatchesClaimed(rec)]
    ELSE IF rec.error # "" THEN [rec EXCEPT !.pc = "thrown"]
         ELSE [rec EXCEPT !.pc = "returned", !.result = MapCards(rec.cards, rec.shuffled)]

\* a loop that requests the digests of all its draws when it starts
LoopHeadEager(others, rec) ==
    IF rec.i > 0
    THEN [rec EXCEPT !.pc = "await",
                     !.requested = IF rec.requested = 0 THEN rec.i ELSE rec.requested,
                     !.pending = SeedWithCounter(rec.seed, DrawCounter(others, rec))]
    ELSE Completed(rec)

\* the head of the for loop: i > 0 requests the next digest, else the call
\* returns; requested counts the digests the call has asked for so far
LoopHead(others, rec) ==
    IF rec.i > 0
    THEN [rec EXCEPT !.pc = "await",
                     !.requested = rec.requested + 1,
                     !.pending = SeedWithCounter(rec.seed, DrawCounter(others, rec))]
    ELSE Completed(rec)

\* shuffled bound to the caller's array itself
SameArray(rec) == [rec EXCEPT !.shuffled = rec.deck, !.aliased = TRUE]

\* const shuffled = [...deck]
SpreadCopy(rec) == [rec EXCEPT !.shuffled = rec.deck, !.aliased = FALSE]

\* the loop body's assignment to shuffled: arr is the array after it
Written(rec, arr) ==
    [rec EXCEPT !.shuffled = arr, !.deck = IF rec.aliased THEN arr ELSE rec.deck]

\* seededShuffle that tests the seed only when it is about to draw
BegunLateTest(others, rec) ==
    IF ~IsSeedFormat(rec.seed) /\ Len(rec.deck) > 1
    THEN Failed([rec EXCEPT !.error = InvalidSeedFormat])
    ELSE LoopHead(others, [SpreadCopy(rec) EXCEPT !.seedCounter = 0,
                                                  !.i = Len(rec.deck) - 1])

\* the body of seededShuffle up to its first await, for the call record rec
Begun(others, rec) ==
    IF ~IsSeedFormat(rec.seed)
    THEN Failed([rec EXCEPT !.error = InvalidSeedFormat])
    ELSE LoopHead(others, [SpreadCopy(rec) EXCEPT !.seedCounter = 0,
                                                  !.i = Len(rec.deck) - 1])

\* seededShuffle up to its first await
Entered(others, op, deck, claimed, seed) ==
    Begun(others, NewCall(op, deck, claimed, seed))

\* shuffleCardsWithSeed(cards, seed) up to its await of seededShuffle on the
\* array of indices: const indices = Array.from({ length: cards.length }, ...)
\* and the call of seededShuffle up to its first await.  op names the function
\* called: shuffleCardsWithSeed, or shuffleDeckWithSeed which hands its
\* arguments on
EnteredCards(others, op, cards, seed) ==
    Begun(others, [NewCall(op, IndexDeck(Len(cards)), <<>>, seed)
                      EXCEPT !.cards = cards, !.original = cards])

\* a draw after which the counter is advanced twice
DrawnTwice(others, rec, w) ==
    LET j == ScaledIndex(w, rec.i + 1)
    IN  LoopHead(others, [Written(rec, SwapElements(rec.shuffled, rec.i, j))
                             EXCEPT !.seedCounter = rec.seedCounter + 2,
                                    !.lastWord = w,
                                    !.lastI = rec.i,
                                    !.lastJ = j,
                                    !.i = rec.i - 1])

\* the rest of seededRandom and one pass of the loop body, for digest word w
Drawn(others, rec, w) ==
    LET j == ScaledIndex(w, rec.i + 1)
    IN  LoopHead(others, [Written(rec, SwapElements(rec.shuffled, rec.i, j))
                             EXCEPT !.seedCounter = rec.seedCounter + 1,
                                    !.lastWord = w,
                                    !.lastI = rec.i,
                                    !.lastJ = j,
                                    !.i = rec.i - 1])

TamperValues == DeckValues \cup {Null}

\* r with one element replaced by a different value, or with its length changed
Tamperings(r) ==
    ({[r EXCEPT ![k] = v] : k \in 1..Len(r), v \in TamperValues} \ {r})
    \cup {Append(r, v) : v \in TamperValues}
    \cup (IF Len(r) > 0 THEN {SubSeq(r, 1, Len(r) - 1)} ELSE {})

\* seededShuffle(deck, seed) is called while fewer than limit calls exist
CallShuffle(limit, decks, seeds) ==
    /\ BagCardinality(calls) < limit
    /\ \E deck \in decks, seed \in seeds :
          calls' = calls (+) Only(Entered(calls, "seededShuffle", deck, <<>>, seed))
    /\ UNCHANGED <<published, littleEndian, hashAvailable, proofVars>>

\* what a verifier of deck may be handed as the claimed shuffle: the deck
\* itself, or the published shuffle of that deck, intact or tampered with
ClaimsFor(deck) ==
    {deck} \cup (IF published.made /\ published.deck = deck
                 THEN {published.result} \cup Tamperings(published.result)
                 ELSE {})

\* verifyShuffleWithSeed(deck, claimed, seed) is called
CallVerify(limit) ==
    /\ BagCardinality(calls) < limit
    /\ \E deck \in Decks, seed \in Seeds :
          \E claimed \in ClaimsFor(deck) :
             calls' = calls (+) Only(Entered(calls, "verifyShuffleWithSeed", deck, claimed, seed))
    /\ UNCHANGED <<published, littleEndian, hashAvailable, proofVars>>

\* a deck of cards, each card written as a number apart from the indices
CardDeck(n) == [k \in 1..n |-> 10 + k]

CardDecks == {CardDeck(n) : n \in 0..MaxDeck}

\* shuffleCardsWithSeed(cards, seed) is called
CallShuffleCards(limit) ==
    /\ BagCardinality(calls) < limit
    /\ \E cards \in CardDecks, seed \in Seeds :
          calls' = calls (+) Only(EnteredCards(calls, "shuffleCardsWithSeed", cards, seed))
    /\ UNCHANGED <<published, littleEndian, hashAvailable, proofVars>>

\* shuffleDeckWithSeed(deck, seed) is called: return shuffleCardsWithSeed(deck, seed)
CallShuffleDeckWithSeed(limit) ==
    /\ BagCardinality(calls) < limit
    /\ \E deck \in CardDecks, seed \in Seeds :
          calls' = calls (+) Only(EnteredCards(calls, "shuffleDeckWithSeed", deck, seed))
    /\ UNCHANGED <<published, littleEndian, hashAvailable, proofVars>>

\* no continuation is waiting in the microtask queue: the event loop
\* delivers a settled digest only when the queue is empty
QueueEmpty == \A rec \in BagToSet(calls) : rec.pc # "resume"

\* the continuation of a function that awaited seededShuffle runs
Resume ==
    /\ \E rec \in BagToSet(calls) :
          /\ rec.pc = "resume"
          /\ calls' = (calls (-) Only(rec)) (+) Only(Resumed(rec))
    /\ UNCHANGED <<published, littleEndian, hashAvailable, proofVars>>

\* crypto.subtle.digest settles for one of the calls awaiting a draw
DigestSettles ==
    /\ QueueEmpty
    /\ \E rec \in BagToSet(calls) :
          /\ rec.pc = "await"
          /\ LET others == calls (-) Only(rec)
             IN  calls' = others (+) Only(IF hashAvailable
                                          THEN Drawn(others, rec, FirstWord(littleEndian, rec.pending))
                                          ELSE Failed([rec EXCEPT !.error = DigestRejected]))
    /\ UNCHANGED <<published, littleEndian, hashAvailable, proofVars>>

\* the caller drops a settled promise
Release ==
    /\ \E rec \in BagToSet(calls) :
          /\ rec.pc \in {"returned", "thrown"}
          /\ calls' = calls (-) Only(rec)
    /\ UNCHANGED <<published, littleEndian, hashAvailable, proofVars>>

\* the caller hands the cards, the seed and the deck returned by
\* shuffleCardsWithSeed to a verifier
PublishCards ==
    /\ \E rec \in BagToSet(calls) :
          /\ rec.op \in {"shuffleCardsWithSeed", "shuffleDeckWithSeed"}
          /\ rec.pc = "returned"
          /\ published' = [deck |-> rec.cards, seed |-> rec.seed,
                           result |-> rec.result, made |-> TRUE]
          /\ calls' = calls (-) Only(rec)
    /\ UNCHANGED <<littleEndian, hashAvailable, proofVars>>

\* verifyShuffleWithSeed(cards, claimed, seed) is called on a deck of cards
CallVerifyCards(limit) ==
    /\ BagCardinality(calls) < limit
    /\ \E cards \in CardDecks, seed \in Seeds :
          \E claimed \in ClaimsFor(cards) :
             calls' = calls (+) Only(Entered(calls, "verifyShuffleWithSeed", cards, claimed, seed))
    /\ UNCHANGED <<published, littleEndian, hashAvailable, proofVars>>

\* the value the caller stores in its array while a call is suspended
WrittenValue == 99

\* the array the caller passed, as it is now: the deck argument of
\* seededShuffle, the cards argument of the functions that map cards
CallerArray(rec) == IF rec.op \in CardOps THEN rec.cards ELSE rec.deck

\* the call record when the caller's array has become arr
CallerArrayBecomes(rec, arr) ==
    IF rec.op \in CardOps THEN [rec EXCEPT !.cards = arr] ELSE [rec EXCEPT !.deck = arr]

\* the positions at which a call has not settled
Suspended == {"hashing", "await", "resume"}

\* while a call is suspended, the caller's code runs and assigns to an
\* element of the array it passed
CallerWrites ==
    /\ \E rec \in BagToSet(calls) :
          /\ rec.pc \in Suspended
          /\ \E k \in 0..(Len(rec.original) - 1) :
                /\ JsGet(rec.original, k) = JsGet(CallerArray(rec), k)
                /\ calls' = (calls (-) Only(rec))
                               (+) Only(CallerArrayBecomes(rec, JsSet(CallerArray(rec), k,
                                                                     WrittenValue)))
    /\ UNCHANGED <<published, littleEndian, hashAvailable, proofVars>>

\* while a call is suspended, the caller's code runs and removes the last
\* element of the array it passed: array.pop()
CallerPops ==
    /\ \E rec \in BagToSet(calls) :
          /\ rec.pc \in Suspended
          /\ Len(CallerArray(rec)) = Len(rec.original)
          /\ Len(rec.original) > 0
          /\ calls' = (calls (-) Only(rec))
                         (+) Only(CallerArrayBecomes(rec, SubSeq(CallerArray(rec), 1,
                                                              Len(rec.original) - 1)))
    /\ UNCHANGED <<published, littleEndian, hashAvailable, proofVars>>

\* the caller hands the deck, the seed and the returned shuffle to a verifier
Publish ==
    /\ \E rec \in BagToSet(calls) :
          /\ rec.op = "seededShuffle"
          /\ rec.pc = "returned"
          /\ published' = [deck |-> rec.deck, seed |-> rec.seed,
                           result |-> rec.result, made |-> TRUE]
          /\ calls' = calls (-) Only(rec)
    /\ UNCHANGED <<littleEndian, hashAvailable, proofVars>>

----------------------------------------------------------------------------
(* Seed codec, commitment hasher, proof assembler and structural verifier *)

ALGORITHM_VERSION == "PF-VL-1.0-A"

\* crypto.getRandomValues throws: no bytes
NoEntropy == <<>>

EntropyOutcomes == ByteArrays \cup {NoEntropy}

\* the error crypto.getRandomValues throws
EntropyFailed == "getRandomValues failed"

\* bytes of a source that is not the secure generator
WeakBytes == [k \in 1..SEED_BYTES |-> 42]

\* the optional argument: given = FALSE stands for undefined
NotProvided == [given |-> FALSE, text |-> <<>>]
Provided(text) == [given |-> TRUE, text |-> text]

ProvidedSeeds == {NotProvided} \cup {Provided(s) : s \in Seeds \cup {<<>>}}

\* generateSeed returning the provided seed as it was given
GenerateSeedAsGiven(providedSeed, bytes) ==
    IF providedSeed.given /\ Len(providedSeed.text) > 0
    THEN IF ~IsSeedFormat(providedSeed.text)
         THEN [thrown |-> TRUE, seed |-> <<>>]
         ELSE [thrown |-> FALSE, seed |-> providedSeed.text]
    ELSE IF bytes = NoEntropy
    THEN [thrown |-> TRUE, seed |-> <<>>]
    ELSE [thrown |-> FALSE, seed |-> BufferToHex(bytes)]

\* generateSeed that turns to another source when the secure generator fails
GenerateSeedFallback(providedSeed, bytes) ==
    IF providedSeed.given /\ Len(providedSeed.text) > 0
    THEN IF ~IsSeedFormat(providedSeed.text)
         THEN [thrown |-> TRUE, seed |-> <<>>]
         ELSE [thrown |-> FALSE, seed |-> ToLowerCase(providedSeed.text)]
    ELSE IF bytes = NoEntropy
    THEN [thrown |-> FALSE, seed |-> BufferToHex(WeakBytes)]
    ELSE [thrown |-> FALSE, seed |-> BufferToHex(bytes)]

\* generateSeed(providedSeed), with bytes what crypto.getRandomValues gives when
\* it is called: the random bytes, or NoEntropy when it throws
GenerateSeed(providedSeed, bytes) ==
    IF providedSeed.given /\ Len(providedSeed.text) > 0
    THEN IF ~IsSeedFormat(providedSeed.text)
         THEN [thrown |-> TRUE, seed |-> <<>>]
         ELSE [thrown |-> FALSE, seed |-> ToLowerCase(providedSeed.text)]
    ELSE IF bytes = NoEntropy
    THEN [thrown |-> TRUE, seed |-> <<>>]
    ELSE [thrown |-> FALSE, seed |-> BufferToHex(bytes)]

\* the texts the model hashes whole
Sha256Texts ==
    <<SeedLower,
      SeedUpper,
      SeedAllOnes,
      SeedShort,
      SeedNonHex,
      SeedLong,
      SeedMixed,
      ToLowerCase(SeedMixed),
      NotHexText,
      <<>>,
      BufferToHex([k \in 1..SEED_BYTES |-> (0 * k) % 256]),
      BufferToHex([k \in 1..SEED_BYTES |-> (7 * k) % 256]),
      BufferToHex([k \in 1..SEED_BYTES |-> (255 * k) % 256]),
      BufferToHex(WeakBytes)>>

\* crypto.subtle.digest('SHA-256', encoder.encode(text)): the 32 bytes SHA-256
\* gives for the texts of Sha256Texts, in that order
Sha256Digests ==
    << <<255, 224, 84, 254, 122, 224, 203, 109, 198, 92, 58, 249, 182, 29, 82, 9,
          244, 57, 133, 29, 180, 61, 11, 165, 153, 115, 55, 223, 21, 70, 104, 235>>,
       <<213, 62, 218, 122, 99, 124, 153, 204, 127, 181, 102, 217, 110, 159, 161, 9,
          191, 21, 196, 120, 65, 10, 63, 94, 180, 212, 196, 226, 108, 208, 129, 246>>,
       <<169, 147, 34, 92, 52, 190, 53, 101, 60, 195, 249, 161, 52, 246, 39, 181,
          151, 25, 74, 11, 186, 179, 209, 107, 153, 250, 63, 220, 242, 221, 170, 49>>,
       <<125, 62, 116, 160, 93, 125, 177, 91, 206, 74, 217, 236, 6, 88, 234, 152,
          227, 240, 110, 238, 207, 22, 180, 198, 255, 242, 218, 69, 125, 220, 47, 52>>,
       <<184, 90, 161, 159, 171, 8, 239, 30, 28, 169, 63, 64, 120, 251, 177, 129,
          237, 246, 218, 87, 1, 243, 71, 152, 164, 150, 129, 173, 65, 79, 153, 169>>,
       <<99, 83, 97, 196, 139, 185, 234, 177, 65, 152, 231, 110, 168, 171, 127, 26,
          65, 104, 93, 106, 214, 42, 169, 20, 109, 48, 29, 79, 23, 235, 10, 224>>,
       <<34, 197, 36, 253, 9, 175, 117, 182, 206, 155, 5, 99, 28, 200, 81, 67,
          75, 197, 62, 121, 238, 170, 225, 194, 26, 222, 193, 187, 88, 114, 10, 28>>,
       <<223, 122, 97, 85, 40, 150, 98, 174, 56, 242, 193, 10, 54, 125, 14, 165,
          50, 31, 121, 114, 195, 140, 83, 54, 4, 142, 104, 50, 180, 220, 141, 190>>,
       <<149, 52, 8, 17, 210, 243, 171, 5, 170, 18, 95, 182, 208, 89, 182, 224,
          41, 17, 86, 3, 20, 193, 37, 253, 46, 153, 173, 1, 217, 149, 203, 210>>,
       <<227, 176, 196, 66, 152, 252, 28, 20, 154, 251, 244, 200, 153, 111, 185, 36,
          39, 174, 65, 228, 100, 155, 147, 76, 164, 149, 153, 27, 120, 82, 184, 85>>,
       <<96, 224, 91, 209, 177, 149, 175, 47, 148, 17, 47, 167, 25, 122, 92, 136,
          40, 144, 88, 132, 12, 231, 198, 223, 150, 147, 117, 107, 198, 37, 15, 85>>,
       <<105, 27, 7, 221, 179, 151, 21, 138, 8, 217, 45, 237, 117, 201, 242, 166,
          245, 199, 192, 229, 45, 30, 152, 52, 185, 107, 11, 208, 225, 108, 23, 171>>,
       <<17, 222, 55, 1, 95, 125, 223, 127, 64, 33, 234, 176, 56, 13, 37, 125,
          72, 139, 116, 167, 101, 138, 37, 125, 235, 121, 48, 125, 48, 28, 33, 138>>,
       <<6, 17, 180, 192, 115, 254, 159, 107, 45, 227, 170, 100, 178, 177, 203, 230,
          245, 238, 19, 81, 110, 50, 41, 182, 82, 122, 160, 57, 186, 51, 149, 207>> >>

Sha256(text) == Sha256Digests[CHOOSE k \in 1..Len(Sha256Texts) : Sha256Texts[k] = text]

\* bufferToHex(hashBuffer) of each digest
Sha256HexDigests == [k \in 1..Len(Sha256Digests) |-> BufferToHex(Sha256Digests[k])]

\* bufferToHex(await crypto.subtle.digest('SHA-256', encoder.encode(text)))
Sha256Hex(text) == Sha256HexDigests[CHOOSE k \in 1..Len(Sha256Texts) : Sha256Texts[k] = text]

\* hashSeed applied to the canonical form of the text
HashSeedCanonical(seed) == Sha256Hex(ToLowerCase(seed))

\* hashSeed(seed), where the digest primitive works
HashSeed(seed) == Sha256Hex(seed)

\* A JavaScript number that is NaN, or an integer of magnitude below 2^58
\* kept as sign, a low limb of 27 bits and the digits above it
Limb == 134217728

Finite(neg, hi, lo) == [kind |-> "finite", neg |-> neg, hi |-> hi, lo |-> lo]

\* the number k, for an integer k of magnitude below 2^27
Num(k) == Finite(k < 0, 0, IF k < 0 THEN -k ELSE k)

NaNNumber == [kind |-> "NaN", neg |-> FALSE, hi |-> 0, lo |-> 0]

\* isNaN(x)
IsNaN(x) == x.kind = "NaN"

Pad2(n) == PadStart(NumberToString(n), 2, "0")

\* new Date(ms).toISOString() for an instant 0 <= ms < 2^31, which lies in
\* January 1970
ToISOString(ms) ==
    LET day == ms \div 86400000
        hour == (ms \div 3600000) % 24
        minute == (ms \div 60000) % 60
        second == (ms \div 1000) % 60
    IN  <<"1", "9", "7", "0", "-", "0", "1", "-">> \o Pad2(day + 1) \o <<"T">>
        \o Pad2(hour) \o <<":">> \o Pad2(minute) \o <<":">> \o Pad2(second) \o <<".">>
        \o PadStart(NumberToString(ms % 1000), 3, "0") \o <<"Z">>

DecimalDigits == {"0", "1", "2", "3", "4", "5", "6", "7", "8", "9"}

\* the form toISOString writes, [+-YY]YYYY-MM-DDTHH:mm:ss.sssZ, with the year
\* part taking y characters (4, or 7 with its sign); the final Z in either case
IsIsoDateTime(text, y) ==
    /\ Len(text) = y + 20
    /\ y = 7 => text[1] \in {"+", "-"}
    /\ \A k \in (IF y = 7 THEN 2 ELSE 1)..y : text[k] \in DecimalDigits
    /\ text[y + 1] = "-" /\ text[y + 4] = "-" /\ text[y + 7] = "T"
    /\ text[y + 10] = ":" /\ text[y + 13] = ":" /\ text[y + 16] = "."
    /\ text[y + 20] \in {"Z", "z"}
    /\ \A k \in {2, 3, 5, 6, 8, 9, 11, 12, 14, 15, 17, 18, 19} : text[y + k] \in DecimalDigits
    /\ ~(y = 7 /\ text[1] = "-" /\ DecimalValue(SubSeq(text, 2, 7)) = 0)

\* days from 1970-01-01 to the first day of a month of the proleptic
\* Gregorian calendar, for years -999999..999999
DaysToMonth(year, month) ==
    LET y == year + 1200000 - (IF month <= 2 THEN 1 ELSE 0)
        era == y \div 400
        yoe == y % 400
        doy == (153 * (IF month > 2 THEN month - 3 ELSE month + 9) + 2) \div 5
    IN  era * 146097 + yoe * 365 + yoe \div 4 - yoe \div 100 + doy - 719468 - 3000 * 146097

\* x * m for a number x = <<hi, lo>> in limbs of 27 bits and m <= 15
RECURSIVE TimesAll(_, _)
TimesAll(x, factors) ==
    IF Len(factors) = 0 THEN x
    ELSE LET lo == x[2] * Head(factors)
         IN  TimesAll(<<x[1] * Head(factors) + lo \div Limb, lo % Limb>>, Tail(factors))

\* days * 86400000 + more, for days >= 0 and 0 <= more <= 86400000
MillisecondsOf(days, more) ==
    LET product == TimesAll(<<0, days>>, <<10, 10, 10, 10, 10, 8, 4, 9, 3>>)
        lo == product[2] + more
    IN  <<product[1] + lo \div Limb, lo % Limb>>

\* the time value of a date and time of day, 0 <= time <= 86400000:
\* day * msPerDay + time, NaN when that sum is farther than 8.64e15 ms from
\* the epoch (day 100000000 at 0 ms and day -100000001 at 86400000 ms are the
\* last and the first instant)
TimeValue(day, time) ==
    IF \/ day > 100000000 \/ (day = 100000000 /\ time > 0)
       \/ day < -100000001 \/ (day = -100000001 /\ time < 86400000)
    THEN NaNNumber
    ELSE IF day >= 0
    THEN LET v == MillisecondsOf(day, time) IN Finite(FALSE, v[1], v[2])
    ELSE LET v == MillisecondsOf(-day - 1, 86400000 - time)
         IN  Finite(v # <<0, 0>>, v[1], v[2])

\* the time value of a text in the form above, as V8 reads it: month 01-12,
\* day 01-31 (a day past the end of the month runs into the next month),
\* 00:00:00.000 to 23:59:59.999, or 24:00:00.000
IsoTimeValue(text, y) ==
    LET field(k, n) == DecimalValue(SubSeq(text, y + k, y + k + n - 1))
        magnitude == DecimalValue(SubSeq(text, IF y = 7 THEN 2 ELSE 1, y))
        year == IF y = 7 /\ text[1] = "-" THEN -magnitude ELSE magnitude
        month == field(2, 2)
        day == field(5, 2)
        hour == field(8, 2)
        minute == field(11, 2)
        second == field(14, 2)
        ms == field(17, 3)
    IN  IF \/ month < 1 \/ month > 12 \/ day < 1 \/ day > 31
           \/ minute > 59 \/ second > 59
           \/ hour > 24 \/ (hour = 24 /\ (minute > 0 \/ second > 0 \/ ms > 0))
        THEN NaNNumber
        ELSE TimeValue(DaysToMonth(year, month) + day - 1,
                       ((hour * 60 + minute) * 60 + second) * 1000 + ms)

\* new Date(text).getTime() for a text in the form toISOString writes, and
\* for a text without any decimal digit, which no date parser accepts
DateParse(text) ==
    CASE IsIsoDateTime(text, 4) -> IsoTimeValue(text, 4)
      [] IsIsoDateTime(text, 7) -> IsoTimeValue(text, 7)
      [] \A k \in 1..Len(text) : text[k] \notin DecimalDigits -> NaNNumber

\* a timestamp of a later day: 2024-01-15T10:30:00.000Z
LaterTimestamp == <<"2", "0", "2", "4", "-", "0", "1", "-", "1", "5", "T",
                    "1", "0", ":", "3", "0", ":", "0", "0", ".", "0", "0", "0", "Z">>

InvalidDateText == <<"i", "n", "v", "a", "l", "i", "d", "-", "d", "a", "t", "e">>

NoError == <<>>

\* the proof assembled from the first provided text, hashed as provided
GenerateShuffleProofRaw(seed, bytes, now) ==
    LET finalSeed == GenerateSeed(seed, bytes)
    IN  IF finalSeed.thrown THEN [thrown |-> TRUE]
        ELSE [thrown |-> FALSE,
              proof |-> [seed |-> finalSeed.seed,
                         seedHash |-> HashSeed(IF seed.given /\ Len(seed.text) > 0
                                               THEN seed.text ELSE finalSeed.seed),
                         timestamp |-> ToISOString(now),
                         version |-> ALGORITHM_VERSION]]

\* the object generateShuffleProof returns for finalSeed when hashSeed has
\* resolved, new Date() being read at instant now
ProofOf(finalSeed, now) ==
    [seed |-> finalSeed,
     seedHash |-> HashSeed(finalSeed),
     timestamp |-> ToISOString(now),
     version |-> ALGORITHM_VERSION]

\* generateShuffleProof(seed) where hashSeed resolves, at instant now
GenerateShuffleProof(seed, bytes, now) ==
    LET finalSeed == GenerateSeed(seed, bytes)
    IN  IF finalSeed.thrown THEN [thrown |-> TRUE]
        ELSE [thrown |-> FALSE, proof |-> ProofOf(finalSeed.seed, now)]

Details(h, t, v) == [seedHashValid |-> h, timestampValid |-> t, versionSupported |-> v]

\* the structural check without the version test
VerifyShuffleProofAnyVersion(p, hashWorks) ==
    IF ~hashWorks
    THEN [valid |-> FALSE, error |-> <<"Invalid seed format">>,
          details |-> Details(FALSE, FALSE, FALSE)]
    ELSE IF HashSeed(p.seed) # p.seedHash
    THEN [valid |-> FALSE, error |-> <<"Seed hash does not match provided seed">>,
          details |-> Details(FALSE, FALSE, FALSE)]
    ELSE IF IsNaN(DateParse(p.timestamp))
    THEN [valid |-> FALSE, error |-> <<"Invalid timestamp format">>,
          details |-> Details(TRUE, FALSE, FALSE)]
    ELSE [valid |-> TRUE, error |-> NoError, details |-> Details(TRUE, TRUE, TRUE)]

\* the structural check with the version test placed before the timestamp test
VerifyShuffleProofVersionFirst(p, hashWorks) ==
    IF ~hashWorks
    THEN [valid |-> FALSE, error |-> <<"Invalid seed format">>,
          details |-> Details(FALSE, FALSE, FALSE)]
    ELSE IF HashSeed(p.seed) # p.seedHash
    THEN [valid |-> FALSE, error |-> <<"Seed hash does not match provided seed">>,
          details |-> Details(FALSE, FALSE, FALSE)]
    ELSE IF p.version # ALGORITHM_VERSION
    THEN [valid |-> FALSE,
          error |-> <<"Unsupported version: ", p.version, ". Expected: ", ALGORITHM_VERSION>>,
          details |-> Details(TRUE, FALSE, FALSE)]
    ELSE IF IsNaN(DateParse(p.timestamp))
    THEN [valid |-> FALSE, error |-> <<"Invalid timestamp format">>,
          details |-> Details(TRUE, FALSE, TRUE)]
    ELSE [valid |-> TRUE, error |-> NoError, details |-> Details(TRUE, TRUE, TRUE)]

\* the structural check with hashSeed awaited outside the try block
VerifyShuffleProofUncaught(p, hashWorks) ==
    IF ~hashWorks
    THEN [raised |-> TRUE, valid |-> FALSE, error |-> NoError,
          details |-> Details(FALSE, FALSE, FALSE)]
    ELSE IF HashSeed(p.seed) # p.seedHash
    THEN [valid |-> FALSE, error |-> <<"Seed hash does not match provided seed">>,
          details |-> Details(FALSE, FALSE, FALSE)]
    ELSE IF IsNaN(DateParse(p.timestamp))
    THEN [valid |-> FALSE, error |-> <<"Invalid timestamp format">>,
          details |-> Details(TRUE, FALSE, FALSE)]
    ELSE IF p.version # ALGORITHM_VERSION
    THEN [valid |-> FALSE,
          error |-> <<"Unsupported version: ", p.version, ". Expected: ", ALGORITHM_VERSION>>,
          details |-> Details(TRUE, TRUE, FALSE)]
    ELSE [valid |-> TRUE, error |-> NoError, details |-> Details(TRUE, TRUE, TRUE)]

\* verifyShuffleProof(p); hashWorks tells whether hashSeed resolves or rejects
VerifyShuffleProof(p, hashWorks) ==
    IF ~hashWorks
    THEN [valid |-> FALSE, error |-> <<"Invalid seed format">>,
          details |-> Details(FALSE, FALSE, FALSE)]
    ELSE IF HashSeed(p.seed) # p.seedHash
    THEN [valid |-> FALSE, error |-> <<"Seed hash does not match provided seed">>,
          details |-> Details(FALSE, FALSE, FALSE)]
    ELSE IF IsNaN(DateParse(p.timestamp))
    THEN [valid |-> FALSE, error |-> <<"Invalid timestamp format">>,
          details |-> Details(TRUE, FALSE, FALSE)]
    ELSE IF p.version # ALGORITHM_VERSION
    THEN [valid |-> FALSE,
          error |-> <<"Unsupported version: ", p.version, ". Expected: ", ALGORITHM_VERSION>>,
          details |-> Details(TRUE, TRUE, FALSE)]
    ELSE [valid |-> TRUE, error |-> NoError, details |-> Details(TRUE, TRUE, TRUE)]

NoProof == [seed |-> <<>>, seedHash |-> <<>>, timestamp |-> <<>>, version |-> ""]

\* pending: generateSeed has returned and the call awaits hashSeed
NoProofCall == [done |-> FALSE, pending |-> FALSE, provided |-> NotProvided, bytes |-> <<>>,
                thrown |-> FALSE, proof |-> NoProof]

\* pending: the call has read proof.seed and awaits hashSeed; read: the field
\* values the call has read; raised: the promise of verifyShuffleProof
\* rejected instead of resolving
NoOutcome == [done |-> FALSE, pending |-> FALSE, raised |-> FALSE, valid |-> FALSE,
              error |-> NoError, details |-> Details(FALSE, FALSE, FALSE), read |-> NoProof]

\* values an artifact received from elsewhere, or a corrupted one, may carry
ProofSeeds == {SeedLower, SeedUpper, SeedNonHex, BufferToHex(DeckBytes)}
ProofHashes == {HashSeed(s) : s \in ProofSeeds} \cup {Rep("0", SeedChars)}
ProofTimestamps == {ToISOString(0), LaterTimestamp, InvalidDateText, <<>>}
ProofVersions == {ALGORITHM_VERSION, "PF-VL-2.0-A", ""}

\* the wall clock advances
Tick ==
    /\ clock < MaxClock
    /\ clock' = clock + 1
    /\ UNCHANGED <<gameVars, codecVars, shuffleVars, proof, origin, tampered, outcome, proofCall>>

\* generateShuffleProof(seed) is called: generateSeed runs, then the call
\* awaits hashSeed; a failure of generateSeed rejects the promise at once
CallGenerateShuffleProof(seeds, entropy) ==
    /\ proof = NoProof
    /\ ~proofCall.pending
    /\ \E seed \in seeds, bytes \in entropy :
          LET thrown == GenerateSeed(seed, bytes).thrown
          IN  proofCall' = [done |-> thrown, pending |-> ~thrown, provided |-> seed,
                            bytes |-> bytes, thrown |-> thrown, proof |-> NoProof]
    /\ origin' = NoProof
    /\ tampered' = {}
    /\ outcome' = NoOutcome
    /\ UNCHANGED <<gameVars, codecVars, shuffleVars, proof, clock>>

\* the digest hashSeed awaits settles: generateShuffleProof runs on, reads the
\* clock and returns the proof, or rejects when the digest does
GenerateProofSettles ==
    /\ proofCall.pending
    /\ LET made == GenerateShuffleProof(proofCall.provided, proofCall.bytes, clock)
       IN  IF hashAvailable
           THEN /\ proof' = made.proof
                /\ origin' = made.proof
                /\ proofCall' = [proofCall EXCEPT !.done = TRUE, !.pending = FALSE,
                                                  !.proof = made.proof]
           ELSE /\ proof' = NoProof
                /\ origin' = NoProof
                /\ proofCall' = [proofCall EXCEPT !.done = TRUE, !.pending = FALSE,
                                                  !.thrown = TRUE]
    /\ UNCHANGED <<gameVars, codecVars, shuffleVars, tampered, outcome, clock>>

\* an artifact arrives from another party
ReceiveProof ==
    /\ proof = NoProof
    /\ ~proofCall.pending
    /\ \E s \in ProofSeeds, h \in ProofHashes, t \in ProofTimestamps, v \in ProofVersions :
          proof' = [seed |-> s, seedHash |-> h, timestamp |-> t, version |-> v]
    /\ origin' = NoProof
    /\ proofCall' = NoProofCall
    /\ tampered' = {}
    /\ outcome' = NoOutcome
    /\ UNCHANGED <<gameVars, codecVars, shuffleVars, clock>>

\* the fields replaced so far in a generated proof; no count is kept for an
\* artifact that came from elsewhere
Replaced(field) == IF origin = NoProof THEN {} ELSE tampered \cup {field}

\* one field of a generated proof is replaced by a value other than the
\* generated one, or the seed of an artifact from elsewhere is replaced while
\* a verification of it is pending (any other change of such an artifact
\* gives an artifact ReceiveProof delivers).  A pending verification goes on;
\* the result of a finished one is dropped with the artifact it was made for
CorruptProof ==
    /\ proof # NoProof
    /\ origin # NoProof \/ outcome.pending
    /\ \/ \E h \in ProofHashes \ {origin.seedHash, proof.seedHash} :
             /\ origin # NoProof
             /\ proof' = [proof EXCEPT !.seedHash = h] /\ tampered' = Replaced("seedHash")
       \/ \E t \in {InvalidDateText, <<>>} \ {proof.timestamp} :
             /\ origin # NoProof
             /\ proof' = [proof EXCEPT !.timestamp = t] /\ tampered' = Replaced("timestamp")
       \/ \E v \in ProofVersions \ {ALGORITHM_VERSION, proof.version} :
             /\ origin # NoProof
             /\ proof' = [proof EXCEPT !.version = v] /\ tampered' = Replaced("version")
       \/ \E s \in ProofSeeds \ {origin.seed, proof.seed} :
             proof' = [proof EXCEPT !.seed = s] /\ tampered' = Replaced("seed")
    /\ outcome' = IF outcome.pending THEN outcome ELSE NoOutcome
    /\ UNCHANGED <<gameVars, codecVars, shuffleVars, origin, clock, proofCall>>

\* the artifact is dropped, once no call holds it
DiscardProof ==
    /\ proof # NoProof
    /\ ~outcome.pending
    /\ proof' = NoProof
    /\ origin' = NoProof
    /\ proofCall' = NoProofCall
    /\ tampered' = {}
    /\ outcome' = NoOutcome
    /\ UNCHANGED <<gameVars, codecVars, shuffleVars, clock>>

\* verifyShuffleProof(proof) is called: it reads proof.seed and awaits hashSeed
CallVerifyShuffleProof ==
    /\ proof # NoProof
    /\ ~outcome.pending
    /\ outcome' = [NoOutcome EXCEPT !.pending = TRUE, !.read = [NoProof EXCEPT !.seed = proof.seed]]
    /\ UNCHANGED <<gameVars, codecVars, shuffleVars, proof, origin, tampered, clock, proofCall>>

\* the digest hashSeed awaits settles: verifyShuffleProof runs on with the
\* seed it read at the call and reads proof.seedHash, proof.timestamp and
\* proof.version as they are now
VerifyProofSettles ==
    /\ outcome.pending
    /\ LET read == [proof EXCEPT !.seed = outcome.read.seed]
       IN  outcome' = VerifyShuffleProof(read, hashAvailable)
                        @@ [done |-> TRUE, pending |-> FALSE, raised |-> FALSE, read |-> read]
    /\ UNCHANGED <<gameVars, codecVars, shuffleVars, proof, origin, tampered, clock, proofCall>>

----------------------------------------------------------------------------
(* shuffleDeckWithProof: a proof, then shuffleCardsWithSeed under its seed *)

\* the shuffle run under the seed text the caller provided
DeckShuffleSeedProvided(providedSeed, made) ==
    IF providedSeed.given /\ Len(providedSeed.text) > 0
    THEN providedSeed.text
    ELSE made.seed

\* the seed handed to shuffleCardsWithSeed: proof.seed
DeckShuffleSeed(providedSeed, made) == made.seed

DeckEntropy == {DeckBytes, NoEntropy}

\* seeds a caller of shuffleDeckWithProof passes: none, a valid seed in either
\* case, a refused one, and the seed of a proof made before
DeckSeeds == {NotProvided, Provided(SeedLower), Provided(SeedUpper), Provided(SeedNonHex),
              Provided(BufferToHex(DeckBytes))}

\* shuffleDeckWithProof(deck, providedSeed) up to its first await: it calls
\* generateShuffleProof, which runs generateSeed and awaits hashSeed of the
\* seed; no Date and no element of deck has been read yet
EnteredWithProof(cards, providedSeed, bytes) ==
    LET finalSeed == GenerateSeed(providedSeed, bytes)
        rec == [NewCall("shuffleDeckWithProof", <<>>, <<>>, finalSeed.seed)
                   EXCEPT !.cards = cards, !.original = cards]
        entered == IF finalSeed.thrown
                   THEN Failed([rec EXCEPT !.error = IF providedSeed.given
                                                         /\ Len(providedSeed.text) > 0
                                                      THEN InvalidSeedFormat
                                                      ELSE EntropyFailed])
                   ELSE [rec EXCEPT !.pc = "hashing", !.pending = finalSeed.seed]
    IN  entered @@ [provided |-> providedSeed, proof |-> NoProof]

\* the rest of generateShuffleProof at instant now, and shuffleDeckWithProof
\* after its first await: shuffleCardsWithSeed(deck, proof.seed) is called on
\* the deck as it is now and runs up to its await of seededShuffle
ProofSettled(others, rec, now) ==
    LET made == ProofOf(rec.seed, now)
        seed == DeckShuffleSeed(rec.provided, made)
    IN  [Begun(others, [rec EXCEPT !.deck = IndexDeck(Len(rec.cards)),
                                   !.seed = seed,
                                   !.pending = <<>>])
            EXCEPT !.proof = made]

\* decks handed to shuffleDeckWithProof: no card, one card, two cards, a full deck
ProofDecks == {CardDeck(n) : n \in {0, 1, 2, MaxDeck}}

\* shuffleDeckWithProof(deck, providedSeed) is called
CallShuffleDeckWithProof(limit, decks) ==
    /\ BagCardinality(calls) < limit
    /\ \E cards \in decks, providedSeed \in DeckSeeds, bytes \in DeckEntropy :
          calls' = calls (+) Only(EnteredWithProof(cards, providedSeed, bytes))
    /\ UNCHANGED <<published, littleEndian, hashAvailable, proofVars>>

\* the digest awaited by hashSeed settles for a shuffleDeckWithProof call;
\* when it rejects, so do generateShuffleProof and shuffleDeckWithProof
DeckProofSettles ==
    /\ QueueEmpty
    /\ \E rec \in BagToSet(calls) :
          /\ rec.pc = "hashing"
          /\ LET others == calls (-) Only(rec)
             IN  calls' = others (+) Only(IF hashAvailable
                                          THEN ProofSettled(others, rec, clock)
                                          ELSE [rec EXCEPT !.pc = "thrown",
                                                           !.error = DigestRejected])
    /\ UNCHANGED <<published, littleEndian, hashAvailable, proofVars>>

----------------------------------------------------------------------------
(* Direct calls of the seed codec and of the commitment hasher *)


\* texts handed to generateSeed and to hashSeed
CodecTexts == Seeds \cup {<<>>, SeedLong, SeedMixed, NotHexText}

NoSeedCall == [done |-> FALSE, provided |-> NotProvided, bytes |-> <<>>,
               thrown |-> FALSE, error |-> "", seed |-> <<>>]

\* pending: hashSeed has been called and awaits crypto.subtle.digest
NoHashCall == [done |-> FALSE, pending |-> FALSE, text |-> <<>>, rejected |-> FALSE, hex |-> <<>>]

\* generateSeed(providedSeed) is called; bytes is what getRandomValues would give
CallGenerateSeed ==
    /\ \E providedSeed \in {NotProvided} \cup {Provided(t) : t \in CodecTexts},
          bytes \in EntropyOutcomes :
          LET made == GenerateSeed(providedSeed, bytes)
              tested == providedSeed.given /\ Len(providedSeed.text) > 0
          IN  seedCall' = [done |-> TRUE, provided |-> providedSeed, bytes |-> bytes,
                           thrown |-> made.thrown,
                           error |-> IF ~made.thrown THEN ""
                                     ELSE IF tested THEN InvalidSeedFormat
                                     ELSE EntropyFailed,
                           seed |-> made.seed]
    /\ UNCHANGED <<gameVars, shuffleVars,
                   proof, origin, tampered, outcome, clock, proofCall, hashCall>>

\* hashSeed(seed) is called: it encodes the text, requests the digest and
\* awaits it; the promise it returned is pending
CallHashSeed ==
    /\ ~hashCall.pending
    /\ \E text \in CodecTexts \cup {BufferToHex(b) : b \in ByteArrays} :
          hashCall' = [NoHashCall EXCEPT !.pending = TRUE, !.text = text]
    /\ UNCHANGED <<gameVars, shuffleVars,
                   proof, origin, tampered, outcome, clock, proofCall, seedCall>>

\* the digest hashSeed awaits settles: the promise resolves to bufferToHex of
\* the digest, and rejects only when the digest primitive does
HashSeedSettles ==
    /\ hashCall.pending
    /\ hashCall' = [hashCall EXCEPT !.done = TRUE, !.pending = FALSE,
                                    !.rejected = ~hashAvailable,
                                    !.hex = IF hashAvailable THEN HashSeed(hashCall.text)
                                            ELSE <<>>]
    /\ UNCHANGED <<gameVars, shuffleVars,
                   proof, origin, tampered, outcome, clock, proofCall, seedCall>>

----------------------------------------------------------------------------
(* The typed-array view of a digest *)

\* values of the first four digest bytes the model ranges over
ByteValues == {0, 1, 128, 255}

DigestHeads == [1..4 -> ByteValues]

\* view[0] and the index j = Math.floor(rand * (i + 1)) drawn from it
DrawFromDigest(bytes, little, i) ==
    LET word == Uint32View(bytes, little)
    IN  [word |-> word, j |-> ScaledIndex(word, i + 1)]

NoViewCall == [done |-> FALSE, bytes |-> <<>>, i |-> 0,
               little |-> [word |-> <<0, 0>>, j |-> 0],
               big |-> [word |-> <<0, 0>>, j |-> 0]]

\* the same digest is read for loop position i on a little-endian and on a
\* big-endian platform
CallReadDigest ==
    /\ ~viewCall.done
    /\ \E bytes \in DigestHeads, i \in 1..(MaxDeck - 1) :
          viewCall' = [done |-> TRUE, bytes |-> bytes, i |-> i,
                       little |-> DrawFromDigest(bytes, TRUE, i),
                       big |-> DrawFromDigest(bytes, FALSE, i)]
    /\ UNCHANGED <<shuffleVars, proof, origin, tampered, outcome, clock, proofCall, codecVars,
                   pass, bank, dealer>>

----------------------------------------------------------------------------
(* The Fisher-Yates pass of seededShuffle with the index j of every step     *)
(* chosen among the values Math.floor(rand * (i + 1)) takes: 0..i, and i + 1 *)
(* when the digest word is 0xffffffff and rand is 1                          *)

NoPass == [started |-> FALSE, deck |-> <<>>, shuffled |-> <<>>, i |-> 0, chosen |-> <<>>]

\* a loop body that swaps position j with the last position of the deck
PassStepTop(p, j) ==
    [p EXCEPT !.shuffled = SwapElements(p.shuffled, Len(p.deck) - 1, j),
              !.chosen = Append(p.chosen, j),
              !.i = p.i - 1]

\* [shuffled[i], shuffled[j]] = [shuffled[j], shuffled[i]]; i--
PassStep(p, j) ==
    [p EXCEPT !.shuffled = SwapElements(p.shuffled, p.i, j),
              !.chosen = Append(p.chosen, j),
              !.i = p.i - 1]

\* const shuffled = [...deck]; let i = deckSize - 1
PassBegun(deck) ==
    [started |-> TRUE, deck |-> deck, shuffled |-> deck, i |-> Len(deck) - 1, chosen |-> <<>>]

\* a pass starts on the deck of n distinct elements
StartPass ==
    /\ \E n \in 0..MaxPass : pass' = PassBegun(IndexDeck(n))
    /\ UNCHANGED <<shuffleVars, proof, origin, tampered, outcome, clock, proofCall, codecVars,
                   viewCall, bank, dealer>>

\* the indices j = Math.floor(rand * (i + 1)) for rand = view[0] / 0xffffffff,
\* which lies in 0..1, both ends included
PassDraws(i) == 0..(i + 1)

\* one iteration of the for loop, for some index a digest can give
StepPass ==
    /\ pass.started
    /\ pass.i > 0
    /\ \E j \in PassDraws(pass.i) : pass' = PassStep(pass, j)
    /\ UNCHANGED <<shuffleVars, proof, origin, tampered, outcome, clock, proofCall, codecVars,
                   viewCall, bank, dealer>>

----------------------------------------------------------------------------
(* Betting: placeBet, cancelBet, settleBet and validateBet.  A JavaScript    *)
(* number is NaN, Infinity, or an integer of magnitude below 2^58 kept as a  *)
(* low limb of 27 bits and the digits above it; sums and differences are     *)
(* rounded to the nearest double.                                            *)

PositiveInfinity == [kind |-> "Infinity", neg |-> FALSE, hi |-> 0, lo |-> 0]

\* Number.isFinite(x)
NumberIsFinite(x) == x.kind = "finite"

MagnitudeLess(x, y) == x.hi < y.hi \/ (x.hi = y.hi /\ x.lo < y.lo)

\* x < y
NumLess(x, y) ==
    CASE x.kind = "NaN" \/ y.kind = "NaN" -> FALSE
      [] x.kind = "Infinity" -> FALSE
      [] y.kind = "Infinity" -> TRUE
      [] x.neg /\ ~y.neg -> TRUE
      [] ~x.neg /\ y.neg -> FALSE
      [] x.neg /\ y.neg -> MagnitudeLess(y, x)
      [] OTHER -> MagnitudeLess(x, y)

\* x <= y
NumLessEq(x, y) ==
    /\ x.kind # "NaN"
    /\ y.kind # "NaN"
    /\ (x = y \/ NumLess(x, y))

\* x > y
NumGreater(x, y) == NumLess(y, x)

\* the double nearest to the integer hi * 2^27 + lo, ties to the even
\* significand, for 0 <= hi < 2^31: an integer of more than 53 bits is a
\* double only when the bits below its leading 53 are zero (from 2^53 the
\* doubles are the even integers, from 2^54 the multiples of 4, ...)
RoundToDouble(hi, lo) ==
    LET drop == IF BitLength(hi) > 26 THEN BitLength(hi) - 26 ELSE 0
        unit == 2^drop
        rest == lo % unit
        kept == lo - rest
        up == \/ 2 * rest > unit
              \/ 2 * rest = unit /\ (kept \div unit) % 2 = 1
    IN  IF ~up THEN Finite(FALSE, hi, kept)
        ELSE IF kept + unit = Limb THEN Finite(FALSE, hi + 1, 0)
        ELSE Finite(FALSE, hi, kept + unit)

\* x + y for integers x, y >= 0
NumAdd(x, y) ==
    LET lo == x.lo + y.lo
    IN  RoundToDouble(x.hi + y.hi + (lo \div Limb), lo % Limb)

\* x - y for integers x >= y >= 0
NumSub(x, y) ==
    LET borrow == IF x.lo < y.lo THEN 1 ELSE 0
    IN  RoundToDouble(x.hi - y.hi - borrow, x.lo + borrow * Limb - y.lo)

\* validateBet(amount, balance, minBet, maxBet)
ValidateBet(amount, balance, minBet, maxBet) ==
    CASE ~NumberIsFinite(amount) \/ NumLessEq(amount, Num(0))
            -> [valid |-> FALSE, error |-> <<"Invalid bet amount">>]
      [] NumLess(amount, minBet)
            -> [valid |-> FALSE, error |-> <<"Minimum bet is ", minBet>>]
      [] NumGreater(amount, maxBet)
            -> [valid |-> FALSE, error |-> <<"Maximum bet is ", maxBet>>]
      [] NumGreater(amount, balance)
            -> [valid |-> FALSE, error |-> <<"Insufficient balance">>]
      [] OTHER
            -> [valid |-> TRUE, error |-> NoError]

DEFAULT_BETTING_CONFIG == [minBet |-> Num(1), maxBet |-> Num(1000)]

\* placeBet(balance, amount, config)
PlaceBet(balance, amount, config) ==
    LET validation == ValidateBet(amount, balance, config.minBet, config.maxBet)
    IN  IF ~validation.valid
        THEN [success |-> FALSE, newBalance |-> balance, error |-> validation.error]
        ELSE [success |-> TRUE, newBalance |-> NumSub(balance, amount), error |-> NoError]

\* cancelBet(balance, amount)
CancelBet(balance, amount) ==
    IF NumLess(amount, Num(0)) \/ ~NumberIsFinite(amount)
    THEN [thrown |-> TRUE, error |-> <<"Invalid bet amount to cancel">>, value |-> balance]
    ELSE [thrown |-> FALSE, error |-> NoError, value |-> NumAdd(balance, amount)]

\* settleBet(balance, payout)
SettleBet(balance, payout) ==
    IF NumLess(payout, Num(0)) \/ ~NumberIsFinite(payout)
    THEN [thrown |-> TRUE, error |-> <<"Invalid payout amount">>,
          payout |-> payout, newBalance |-> balance, profit |-> payout]
    ELSE [thrown |-> FALSE, error |-> NoError,
          payout |-> payout, newBalance |-> NumAdd(balance, payout), profit |-> payout]

\* 2^53 + 2, the second double after 2^53
Beyond53 == Finite(FALSE, Limb \div 2, 2)

\* balances a session starts from
StartBalances == {Num(0), Num(50), Num(1000), Beyond53}

\* amounts and payouts a caller passes
BetAmounts == {Num(-50), Num(0), Num(1), Num(100), Num(1500), NaNNumber, PositiveInfinity}

BettingConfigs == {DEFAULT_BETTING_CONFIG, [minBet |-> Num(10), maxBet |-> Num(500)]}

NoBet == [op |-> "", amount |-> Num(0), before |-> Num(0), after |-> Num(0),
          success |-> FALSE, thrown |-> FALSE, error |-> NoError,
          minBet |-> Num(0), maxBet |-> Num(0)]

NoBank == [open |-> FALSE, balance |-> Num(0), bets |-> 0, last |-> NoBet, prev |-> NoBet]

\* the balance takes the call's result and the call becomes the last one
Booked(call) ==
    [bank EXCEPT !.balance = call.after, !.bets = bank.bets + 1,
                 !.last = call, !.prev = bank.last]

\* a session starts with some balance
OpenSession ==
    /\ \E balance \in StartBalances :
          bank' = [NoBank EXCEPT !.open = TRUE, !.balance = balance]
    /\ UNCHANGED <<shuffleVars, proof, origin, tampered, outcome, clock, proofCall, codecVars,
                   viewCall, pass, dealer>>

\* balance = placeBet(balance, amount, config).newBalance
CallPlaceBet ==
    /\ bank.open
    /\ bank.bets < MaxBets
    /\ \E amount \in BetAmounts, config \in BettingConfigs :
          LET result == PlaceBet(bank.balance, amount, config)
          IN  bank' = Booked([NoBet EXCEPT !.op = "placeBet", !.amount = amount,
                                           !.before = bank.balance,
                                           !.after = result.newBalance,
                                           !.success = result.success,
                                           !.error = result.error,
                                           !.minBet = config.minBet,
                                           !.maxBet = config.maxBet])
    /\ UNCHANGED <<shuffleVars, proof, origin, tampered, outcome, clock, proofCall, codecVars,
                   viewCall, pass, dealer>>

\* balance = cancelBet(balance, amount); the balance is kept when it throws
CallCancelBet ==
    /\ bank.open
    /\ bank.bets < MaxBets
    /\ \E amount \in BetAmounts :
          LET result == CancelBet(bank.balance, amount)
          IN  bank' = Booked([NoBet EXCEPT !.op = "cancelBet", !.amount = amount,
                                           !.before = bank.balance,
                                           !.after = result.value,
                                           !.success = ~result.thrown,
                                           !.thrown = result.thrown,
                                           !.error = result.error])
    /\ UNCHANGED <<shuffleVars, proof, origin, tampered, outcome, clock, proofCall, codecVars,
                   viewCall, pass, dealer>>

\* balance = settleBet(balance, payout).newBalance; the balance is kept when it throws
CallSettleBet ==
    /\ bank.open
    /\ bank.bets < MaxBets
    /\ \E payout \in BetAmounts :
          LET result == SettleBet(bank.balance, payout)
          IN  bank' = Booked([NoBet EXCEPT !.op = "settleBet", !.amount = payout,
                                           !.before = bank.balance,
                                           !.after = result.newBalance,
                                           !.success = ~result.thrown,
                                           !.thrown = result.thrown,
                                           !.error = result.error])
    /\ UNCHANGED <<shuffleVars, proof, origin, tampered, outcome, clock, proofCall, codecVars,
                   viewCall, pass, dealer>>

----------------------------------------------------------------------------
(* The dealer: evaluateHand, shouldDealerHit and playDealerHand.  A card is  *)
(* written as its rank; suit and faceUp take no part in the dealer's play.   *)

Ranks == {"A", "6", "K"}

\* parseInt(rank, 10) for the number ranks
ParseInt(rank) ==
    CASE rank = "2" -> 2 [] rank = "3" -> 3 [] rank = "4" -> 4 [] rank = "5" -> 5
      [] rank = "6" -> 6 [] rank = "7" -> 7 [] rank = "8" -> 8 [] rank = "9" -> 9
      [] rank = "10" -> 10

\* getCardValue(rank)
GetCardValue(rank) ==
    IF rank = "A" THEN 11
    ELSE IF rank \in {"J", "Q", "K"} THEN 10
    ELSE ParseInt(rank)

RECURSIVE SumValues(_)
SumValues(cards) ==
    IF Len(cards) = 0 THEN 0 ELSE GetCardValue(Head(cards)) + SumValues(Tail(cards))

\* while (value > 21 && aces > 0) { value -= 10; aces--; }
RECURSIVE AdjustForAces(_, _)
AdjustForAces(value, aces) ==
    IF value > 21 /\ aces > 0 THEN AdjustForAces(value - 10, aces - 1)
    ELSE [value |-> value, aces |-> aces]

\* evaluateHand(cards), isSplitHand left at its default false
EvaluateHand(cards) ==
    LET aces == Cardinality({k \in 1..Len(cards) : cards[k] = "A"})
        adjusted == AdjustForAces(SumValues(cards), aces)
    IN  [value |-> adjusted.value,
         isSoft |-> adjusted.aces > 0,
         isBlackjack |-> Len(cards) = 2 /\ adjusted.value = 21,
         isBust |-> adjusted.value > 21]

\* shouldDealerHit(cards, rules)
ShouldDealerHit(cards, rules) ==
    IF Len(cards) = 0 THEN TRUE
    ELSE LET handValue == EvaluateHand(cards)
         IN  CASE handValue.isBust -> FALSE
               [] handValue.isBlackjack -> FALSE
               [] handValue.value < 17 -> TRUE
               [] handValue.value >= 17 /\ ~handValue.isSoft -> FALSE
               [] handValue.value = 17 /\ handValue.isSoft -> rules.hitOnSoft17
               [] handValue.value >= 18 /\ handValue.isSoft -> FALSE
               [] OTHER -> FALSE

NoDealer == [pc |-> "idle", initialCards |-> <<>>, availableCards |-> <<>>,
             initialAtCall |-> <<>>, availableAtCall |-> <<>>,
             rules |-> [hitOnSoft17 |-> FALSE],
             currentCards |-> <<>>, cardIndex |-> 0, decisions |-> <<>>,
             finalCards |-> <<>>, error |-> <<>>]

\* the entry pushed on decisions
Decision(action, cards) ==
    [action |-> action, handValue |-> EvaluateHand(cards).value,
     isSoft |-> EvaluateHand(cards).isSoft]

\* a draw that leaves cardIndex where it was
DealerDrawnAgain(d) ==
    [d EXCEPT !.currentCards = Append(d.currentCards, d.availableCards[d.cardIndex + 1])]

\* const newCard = availableCards[cardIndex];
\* currentCards = [...currentCards, newCard]; cardIndex++
DealerDrawn(d) ==
    [d EXCEPT !.currentCards = Append(d.currentCards, d.availableCards[d.cardIndex + 1]),
              !.cardIndex = d.cardIndex + 1]

\* one evaluation of the while condition and what follows it: an iteration of
\* the loop body, or the code after the loop
DealerStepped(d) ==
    IF ShouldDealerHit(d.currentCards, d.rules)
    THEN LET logged == [d EXCEPT !.decisions = Append(d.decisions,
                                                      Decision("hit", d.currentCards))]
         IN  IF d.cardIndex >= Len(d.availableCards)
             THEN [logged EXCEPT !.pc = "thrown",
                                 !.error = <<"Not enough cards available to complete dealer hand",
                                             d.cardIndex + 1, Len(d.availableCards)>>]
             ELSE DealerDrawn(logged)
    ELSE [d EXCEPT !.pc = "returned",
                   !.decisions = Append(d.decisions, Decision("stand", d.currentCards)),
                   !.finalCards = d.currentCards]

Hands(maxLen) == UNION {[1..n -> Ranks] : n \in 0..maxLen}

\* playDealerHand(initialCards, availableCards, rules) is called and runs up
\* to the first evaluation of the while condition
CallPlayDealerHand ==
    /\ dealer.pc = "idle"
    /\ \E initialCards \in Hands(2), availableCards \in Hands(MaxAvailable),
          hitOnSoft17 \in BOOLEAN :
          dealer' = [NoDealer EXCEPT !.pc = "loop",
                                     !.initialCards = initialCards,
                                     !.availableCards = availableCards,
                                     !.initialAtCall = initialCards,
                                     !.availableAtCall = availableCards,
                                     !.rules = [hitOnSoft17 |-> hitOnSoft17],
                                     !.currentCards = initialCards]
    /\ UNCHANGED <<shuffleVars, proof, origin, tampered, outcome, clock, proofCall, codecVars,
                   viewCall, pass, bank>>

\* the while loop of playDealerHand goes on by one evaluation of its condition
DealerLoop ==
    /\ dealer.pc = "loop"
    /\ dealer' = DealerStepped(dealer)
    /\ UNCHANGED <<shuffleVars, proof, origin, tampered, outcome, clock, proofCall, codecVars,
                   viewCall, pass, bank>>

----------------------------------------------------------------------------
Init ==
    /\ calls = EmptyBag
    /\ published = NoPublication
    /\ littleEndian \in BOOLEAN
    /\ hashAvailable \in BOOLEAN
    /\ proof = NoProof
    /\ origin = NoProof
    /\ tampered = {}
    /\ outcome = NoOutcome
    /\ clock = 0
    /\ seedCall = NoSeedCall
    /\ hashCall = NoHashCall
    /\ viewCall = NoViewCall
    /\ proofCall = NoProofCall
    /\ pass = NoPass
    /\ bank = NoBank
    /\ dealer = NoDealer

\* concurrent seededShuffle calls
Next ==
    \/ CallShuffle(MaxCalls, IndexDecks, ConcurrentSeeds)
    \/ DigestSettles
    \/ Release

Spec == Init /\ [][Next]_vars

\* one caller that shuffles, publishes and verifies, one call at a time
VerifyNext ==
    \/ CallShuffle(1, Decks, Seeds)
    \/ CallShuffleCards(1)
    \/ CallShuffleDeckWithSeed(1)
    \/ DigestSettles
    \/ Resume
    \/ Publish
    \/ CallVerify(1)
    \/ Release

VerifySpec == Init /\ [][VerifyNext]_vars

\* proofs generated, received, corrupted and verified
ProofNext ==
    \/ Tick
    \/ CallGenerateShuffleProof(DeckSeeds, DeckEntropy)
    \/ GenerateProofSettles
    \/ ReceiveProof
    \/ CorruptProof
    \/ DiscardProof
    \/ CallVerifyShuffleProof
    \/ VerifyProofSettles

\* the proof functions read no typed array: one byte order is enough
ProofInit == Init /\ littleEndian

ProofSpec == ProofInit /\ [][ProofNext]_vars

\* one caller that shuffles and writes to its array while the call is suspended
WriteNext ==
    \/ CallShuffle(1, IndexDecks, ValidSeeds)
    \/ CallShuffleCards(1)
    \/ CallShuffleDeckWithSeed(1)
    \/ CallShuffleDeckWithProof(1, CardDecks)
    \/ CallerWrites
    \/ CallerPops
    \/ DeckProofSettles
    \/ DigestSettles
    \/ Resume
    \/ Release

WriteSpec == Init /\ [][WriteNext]_vars

\* one caller that shuffles decks of cards and has the result verified
CardNext ==
    \/ CallShuffleCards(1)
    \/ CallShuffleDeckWithSeed(1)
    \/ DigestSettles
    \/ Resume
    \/ PublishCards
    \/ CallVerifyCards(1)
    \/ Release

CardSpec == Init /\ [][CardNext]_vars

\* direct calls of generateSeed and hashSeed
CodecNext ==
    \/ CallGenerateSeed
    \/ CallHashSeed
    \/ HashSeedSettles

CodecSpec == ProofInit /\ [][CodecNext]_vars

\* seeds and proofs generated on platforms whose random generator may fail
EntropyNext ==
    \/ CallGenerateSeed
    \/ CallGenerateShuffleProof(ProvidedSeeds, EntropyOutcomes)
    \/ GenerateProofSettles
    \/ DiscardProof

EntropySpec == ProofInit /\ [][EntropyNext]_vars

\* shuffleDeckWithProof, called and called again
DeckNext ==
    \/ CallShuffleDeckWithProof(2, ProofDecks)
    \/ Tick
    \/ DeckProofSettles
    \/ DigestSettles
    \/ Resume
    \/ Release

DeckSpec == Init /\ [][DeckNext]_vars

\* digests read through the typed-array view
ViewNext == CallReadDigest

ViewSpec == ProofInit /\ [][ViewNext]_vars

\* passes with freely chosen indices
PassNext == StartPass \/ StepPass

PassSpec == ProofInit /\ [][PassNext]_vars

\* betting sessions
BetNext ==
    \/ OpenSession
    \/ CallPlaceBet
    \/ CallCancelBet
    \/ CallSettleBet

BetSpec == ProofInit /\ [][BetNext]_vars

\* dealer hands; a call that has begun runs on: playDealerHand is synchronous
DealerNext == CallPlayDealerHand \/ DealerLoop

DealerSpec == ProofInit /\ [][DealerNext]_vars /\ WF_vars(DealerLoop)

----------------------------------------------------------------------------
(* Properties *)

ShuffleCalls == {r \in BagToSet(calls) : r.op = "seededShuffle"}
VerifyCalls == {r \in BagToSet(calls) : r.op = "verifyShuffleWithSeed"}
CardCalls == {r \in BagToSet(calls) : r.op \in {"shuffleCardsWithSeed", "shuffleDeckWithSeed"}}

Multiset(arr) ==
    [v \in {arr[k] : k \in 1..Len(arr)} |-> Cardinality({k \in 1..Len(arr) : arr[k] = v})]

\* the working array of seededShuffle(deck, seed) run on its own, after k draws
RECURSIVE AloneState(_, _, _, _)
AloneState(deck, seed, t, k) ==
    IF k = 0 THEN deck
    ELSE LET i == Len(deck) - k
             w == FirstWord(t, SeedWithCounter(seed, k - 1))
         IN  SwapElements(AloneState(deck, seed, t, k - 1), i, ScaledIndex(w, i + 1))

\* C1: every seededShuffle call that returns, returns a sequence of the length
\* of its input whose multiset of elements is the multiset of the input.
C1_PermutationValidity ==
    \A r \in ShuffleCalls :
        r.pc = "returned"
            => /\ Len(r.result) = Len(r.deck)
               /\ Multiset(r.result) = Multiset(r.deck)

\* C2: every draw is below 1 and every swap index j chosen at step i
\* satisfies 0 <= j <= i.
C2_DrawInRange ==
    \A r \in BagToSet(calls) :
        r.seedCounter > 0
            => /\ BelowOne(r.lastWord)
               /\ 0 <= r.lastJ
               /\ r.lastJ <= r.lastI

\* C3: two seededShuffle calls with the same deck and seed return the same
\* result, whatever calls ran before or alongside them.
C3_Deterministic ==
    \A r, q \in ShuffleCalls :
        (/\ r.pc = "returned" /\ q.pc = "returned"
         /\ r.deck = q.deck
         /\ r.seed = q.seed)
            => r.result = q.result

C3_Witness ==
    \E r \in ShuffleCalls :
        /\ CopiesIn(r, calls) >= 2
        /\ r.pc = "returned"
        /\ r.deck = IndexDeck(MaxDeck)
        /\ r.result # r.deck

\* C4: verifying the published result of seededShuffle(d, s) against d and s
\* returns true.
C4_Roundtrip ==
    \A r \in VerifyCalls :
        (/\ r.pc = "returned"
         /\ published.made
         /\ r.deck = published.deck
         /\ r.seed = published.seed
         /\ r.claimed = published.result)
            => r.verdict

C4_Witness ==
    \E r \in VerifyCalls :
        /\ r.pc = "returned"
        /\ published.made
        /\ r.deck = published.deck
        /\ r.seed = published.seed
        /\ r.claimed = published.result
        /\ Len(r.deck) = MaxDeck
        /\ r.claimed # r.deck

\* C5: a claimed sequence that differs from seededShuffle(d, s) in one
\* position or in length is rejected by verifyShuffleWithSeed(d, claimed, s).
C5_TamperRejected ==
    \A r \in VerifyCalls :
        (/\ r.pc = "returned"
         /\ published.made
         /\ r.deck = published.deck
         /\ r.seed = published.seed
         /\ r.claimed # published.result)
            => ~r.verdict

\* C6: verifyShuffleWithSeed never raises, and it returns false whenever the
\* seed fails the grammar or the hash primitive fails during the reproduction.
C6_VerifyNeverRaises ==
    \A r \in VerifyCalls :
        /\ r.pc \in {"await", "resume", "returned"}
        /\ (/\ r.pc = "returned"
            /\ \/ ~IsSeedFormat(r.seed)
               \/ ~hashAvailable /\ Len(r.deck) > 1)
               => ~r.verdict

C6_Witness ==
    \E r \in VerifyCalls :
        /\ r.pc = "returned"
        /\ IsSeedFormat(r.seed)
        /\ ~hashAvailable
        /\ Len(r.deck) > 1
        /\ r.claimed = r.deck

\* C7: at every await and at its return, a seededShuffle call holds exactly
\* the counter, the requested message and the working array it holds when it
\* runs alone, whatever other calls are interleaved with it.
C7_Isolation ==
    \A r \in ShuffleCalls :
        r.pc \in {"await", "returned"}
            => /\ r.shuffled = AloneState(r.deck, r.seed, littleEndian, r.seedCounter)
               /\ r.pc = "await"
                      => r.pending = SeedWithCounter(r.seed, r.seedCounter)
               /\ r.pc = "returned"
                      => /\ r.seedCounter = IF Len(r.deck) > 0 THEN Len(r.deck) - 1 ELSE 0
                         /\ r.result = r.shuffled

C7_Witness ==
    \E r, q \in ShuffleCalls :
        /\ r.pc = "await" /\ r.seedCounter >= 1
        /\ q.pc = "await" /\ q.seedCounter >= 1
        /\ r.seed # q.seed
        /\ r.shuffled # q.shuffled

\* C8: a proof as generateShuffleProof returned it carries the hash of its
\* seed and the supported version, and verifyShuffleProof accepts it with all
\* three detail flags true and no error.
C8_ProofSelfConsistent ==
    (proof # NoProof /\ origin = proof /\ tampered = {})
        => /\ proof.seedHash = HashSeed(proof.seed)
           /\ proof.version = ALGORITHM_VERSION
           /\ outcome.done
                => /\ outcome.valid
                   /\ outcome.details = Details(TRUE, TRUE, TRUE)
                   /\ outcome.error = NoError

C8_Witness ==
    /\ proof # NoProof /\ origin = proof /\ tampered = {}
    /\ outcome.done
    /\ proof.seed = SeedLower
    /\ clock > 0

\* C9: a generated proof in which exactly one of seedHash, timestamp, version
\* was replaced is rejected, with the detail flag of the replaced field false.
C9_CorruptionDetected ==
    (outcome.done /\ origin # NoProof)
        => /\ tampered = {"seedHash"}
                => ~outcome.valid /\ ~outcome.details.seedHashValid
           /\ tampered = {"timestamp"}
                => ~outcome.valid /\ ~outcome.details.timestampValid
           /\ tampered = {"version"}
                => ~outcome.valid /\ ~outcome.details.versionSupported

C9_Witness ==
    /\ outcome.done /\ origin # NoProof
    /\ tampered = {"version"}
    /\ outcome.details.seedHashValid /\ outcome.details.timestampValid

\* C10: a proof carrying the commitment hashSeed(s) together with a seed
\* other than s is rejected with seedHashValid false.
C10_CommitmentBinding ==
    outcome.done
        => \A s \in ProofSeeds :
              (s # outcome.read.seed /\ outcome.read.seedHash = HashSeed(s))
                  => ~outcome.valid /\ ~outcome.details.seedHashValid

C10_Witness ==
    /\ outcome.done
    /\ hashAvailable
    /\ outcome.read.seed = SeedLower
    /\ outcome.read.seedHash = HashSeed(SeedUpper)
    /\ ~IsNaN(DateParse(outcome.read.timestamp))
    /\ outcome.read.version = ALGORITHM_VERSION

\* what each of the three checks finds on the field values the call read
HashMatches == HashSeed(outcome.read.seed) = outcome.read.seedHash
TimestampParses == ~IsNaN(DateParse(outcome.read.timestamp))
VersionMatches == outcome.read.version = ALGORITHM_VERSION

SeedHashMessage == <<"Seed hash does not match provided seed">>
TimestampMessage == <<"Invalid timestamp format">>
IsVersionMessage(e) == Len(e) = 4 /\ e[1] = "Unsupported version: "

\* C11: a rejection names the first failing check in the order seedHash,
\* timestamp, version: a mismatched seed hash gives the seed-hash message
\* whatever the other fields hold, a timestamp message is given only when the
\* seed hash matched, a version message only when seed hash and timestamp passed.
C11_FirstFailingCheck ==
    (outcome.done /\ ~outcome.valid)
        => /\ (hashAvailable /\ ~HashMatches) => outcome.error = SeedHashMessage
           /\ outcome.error = TimestampMessage
                => hashAvailable /\ HashMatches /\ ~TimestampParses
           /\ IsVersionMessage(outcome.error)
                => /\ hashAvailable /\ HashMatches /\ TimestampParses /\ ~VersionMatches
                   /\ outcome.error[2] = outcome.read.version

C11_Witness ==
    /\ outcome.done /\ ~outcome.valid
    /\ hashAvailable /\ HashMatches
    /\ ~TimestampParses /\ ~VersionMatches
    /\ outcome.error = TimestampMessage

\* C12: each detail flag reports its own check, independently of the other
\* two: seedHashValid exactly when hashSeed(proof.seed) = proof.seedHash,
\* timestampValid exactly when the timestamp parses, versionSupported exactly
\* when the version is the supported one.
C12_IndependentFlags ==
    (outcome.done /\ hashAvailable)
        => outcome.details = Details(HashMatches, TimestampParses, VersionMatches)

\* C13: verifyShuffleProof never raises; valid is true exactly when the three
\* detail flags are true, and an error reason is present exactly when valid
\* is false.
C13_StructuredResult ==
    outcome.done
        => /\ ~outcome.raised
           /\ outcome.valid <=> outcome.details = Details(TRUE, TRUE, TRUE)
           /\ outcome.valid <=> outcome.error = NoError

C13_Witness ==
    /\ outcome.done
    /\ ~hashAvailable
    /\ ~IsSeedFormat(outcome.read.seed)
    /\ ~outcome.valid
    /\ outcome.error # NoError

\* C14: when seededShuffle or shuffleCardsWithSeed has completed, by a return
\* or by a rejection, the caller's array holds the elements it held at the
\* call, in the same order, and a returned array is not the caller's array.
C14_NonMutation ==
    \A r \in ShuffleCalls \cup CardCalls :
        r.pc \in {"returned", "thrown"}
            => /\ CallerArray(r) = r.original
               /\ r.pc = "returned" => ~r.aliased

C14_Witness ==
    \E r \in ShuffleCalls :
        /\ r.pc = "returned"
        /\ Len(r.deck) = MaxDeck
        /\ r.result # r.deck
        /\ r.deck = r.original

\* C17: seededShuffle and shuffleCardsWithSeed reject a seed that is not 64
\* hexadecimal characters with the 'Invalid seed format' error for every deck,
\* before any draw: no digest was requested and nothing is returned.
C17_FormatRejection ==
    \A r \in ShuffleCalls \cup CardCalls :
        ~IsSeedFormat(r.seed)
            => /\ r.pc \in (IF r.op = "seededShuffle" THEN {"thrown"} ELSE {"resume", "thrown"})
               /\ r.error = InvalidSeedFormat
               /\ r.pending = <<>>
               /\ r.seedCounter = 0
               /\ r.result = <<>>

C17_Witness ==
    \E r \in ShuffleCalls :
        /\ r.seed = SeedShort
        /\ r.deck = <<>>
        /\ r.pc = "thrown"
        /\ r.error = InvalidSeedFormat

\* C19: the text hashed on a draw is the lower-case form of the seed followed
\* by the counter; so two accepted seeds differing only in letter case shuffle
\* a deck alike, and a shuffle made with S verifies with lowercase(S).
C19_CanonicalSeedText ==
    /\ \A r \in BagToSet(calls) :
          r.pc = "await"
              => r.pending = SeedWithCounter(ToLowerCase(r.seed), r.seedCounter)
    /\ \A r \in ShuffleCalls :
          (/\ r.pc = "returned"
           /\ published.made
           /\ r.deck = published.deck
           /\ ToLowerCase(r.seed) = ToLowerCase(published.seed))
              => r.result = published.result
    /\ \A r \in VerifyCalls :
          (/\ r.pc = "returned"
           /\ hashAvailable
           /\ published.made
           /\ r.deck = published.deck
           /\ r.claimed = published.result
           /\ r.seed = ToLowerCase(published.seed))
              => r.verdict

\* C20: in one seededShuffle call on n elements the counter is 0 at the first
\* draw and grows by 1 with every draw; the draw deciding position i hashes
\* the seed followed by n-1-i as 10 zero-padded decimal digits; n-1 draws are
\* made for n >= 1 and none for n = 0.
C20_CounterProtocol ==
    \A r \in ShuffleCalls :
        LET n == Len(r.original)
            digits == SubSeq(r.pending, Len(r.seed) + 1, Len(r.pending))
        IN  /\ r.pc = "await"
                => /\ r.i >= 1 /\ r.i <= n - 1
                   /\ r.seedCounter = n - 1 - r.i
                   /\ SubSeq(r.pending, 1, Len(r.seed)) = r.seed
                   /\ Len(digits) = 10
                   /\ DecimalValue(digits) = n - 1 - r.i
            /\ r.seedCounter > 0 => r.lastI = n - r.seedCounter
            /\ r.pc = "returned"
                => /\ r.seedCounter = IF n >= 1 THEN n - 1 ELSE 0
                   /\ n <= 1 => r.pending = <<>>

C20_Witness ==
    \E r \in ShuffleCalls :
        /\ r.pc = "await"
        /\ Len(r.original) = MaxDeck
        /\ r.seedCounter = MaxDeck - 2
        /\ r.seed = SeedUpper

LowerHexChars == {"0", "1", "2", "3", "4", "5", "6", "7", "8", "9",
                  "a", "b", "c", "d", "e", "f"}

\* the byte written by the two hexadecimal characters at positions 2k-1 and 2k
HexValue(ch) ==
    CASE ch = "a" -> 10 [] ch = "b" -> 11 [] ch = "c" -> 12
      [] ch = "d" -> 13 [] ch = "e" -> 14 [] ch = "f" -> 15
      [] OTHER -> DigitValue(ch)

BytePair(text, k) == 16 * HexValue(text[2 * k - 1]) + HexValue(text[2 * k])

\* C15: generateSeed fails with the 'Invalid seed format' error, and returns
\* no seed, for every provided text that is not 64 hexadecimal characters,
\* the empty text included; it never puts a generated seed in its place.
C15_ProvidedRejected ==
    (/\ seedCall.done
     /\ seedCall.provided.given
     /\ ~IsSeedFormat(seedCall.provided.text))
        => /\ seedCall.thrown
           /\ seedCall.error = InvalidSeedFormat
           /\ seedCall.seed = <<>>

\* C16: a seed generateSeed returns is 64 characters of 0-9 and a-f; for a
\* valid provided seed it is that seed in lower case, so generateSeed applied
\* to its own result gives the result again; with no argument it is the 32
\* random bytes written as two hexadecimal characters each.
C16_CanonicalSeed ==
    (seedCall.done /\ ~seedCall.thrown)
        => /\ Len(seedCall.seed) = 64
           /\ \A k \in 1..Len(seedCall.seed) : seedCall.seed[k] \in LowerHexChars
           /\ (seedCall.provided.given /\ IsSeedFormat(seedCall.provided.text))
                => /\ Len(seedCall.seed) = Len(seedCall.provided.text)
                   /\ \A k \in 1..Len(seedCall.seed) :
                         seedCall.seed[k] = ToLowerChar(seedCall.provided.text[k])
           /\ \A b \in ByteArrays :
                 GenerateSeed(Provided(seedCall.seed), b)
                    = [thrown |-> FALSE, seed |-> seedCall.seed]
           /\ ~seedCall.provided.given
                => /\ Len(seedCall.bytes) = 32
                   /\ \A k \in 1..32 : BytePair(seedCall.seed, k) = seedCall.bytes[k]

C16_Witness ==
    /\ seedCall.done /\ ~seedCall.thrown
    /\ seedCall.provided = Provided(SeedMixed)
    /\ seedCall.seed # SeedMixed

\* C18: hashSeed rejects every seed text that is not 64 hexadecimal
\* characters and returns a digest only for texts that are.
C18_HashSeedFormat ==
    (hashCall.done /\ hashAvailable)
        => /\ ~IsSeedFormat(hashCall.text) => hashCall.rejected
           /\ hashCall.hex # <<>> => IsSeedFormat(hashCall.text)

\* C21: the draws of one seededShuffle call are sequential: a call has at most
\* one digest request outstanding, and the request of a draw is made only
\* after the digest of the draw before it was delivered, the counter advanced
\* and its swap applied.
C21_SequentialDraws ==
    \A r \in ShuffleCalls :
        LET outstanding == r.requested - r.seedCounter
            n == Len(r.original)
        IN  /\ outstanding \in {0, 1}
            /\ r.pc = "await"
                => /\ outstanding = 1
                   /\ r.seedCounter = n - 1 - r.i
                   /\ r.shuffled = AloneState(r.original, r.seed, littleEndian, r.seedCounter)
            /\ r.pc = "returned" => outstanding = 0

C21_Witness ==
    \E r \in ShuffleCalls :
        /\ r.pc = "await"
        /\ r.requested = MaxDeck - 1
        /\ r.seedCounter = MaxDeck - 2
        /\ r.shuffled # r.original

\* C22: the 32-bit integer drawn from a digest is read from its first four
\* bytes under one fixed byte order: the same digest bytes give the same draw
\* value and the same swap index on a little-endian and a big-endian platform.
C22_ByteOrderPinned ==
    viewCall.done
        => /\ viewCall.little.word = viewCall.big.word
           /\ viewCall.little.j = viewCall.big.j

\* C23: when the secure random generator fails, generateSeed() and
\* generateShuffleProof() called without a seed end in an error, with no seed
\* and no proof from any other source; with a valid seed provided the
\* generator is not consulted, so its failure changes nothing.
C23_EntropyFailureFatal ==
    /\ (seedCall.done /\ ~seedCall.provided.given /\ seedCall.bytes = NoEntropy)
          => /\ seedCall.thrown
             /\ seedCall.error = EntropyFailed
             /\ seedCall.seed = <<>>
    /\ (seedCall.done /\ seedCall.provided.given /\ IsSeedFormat(seedCall.provided.text))
          => /\ ~seedCall.thrown
             /\ seedCall.seed = ToLowerCase(seedCall.provided.text)
    /\ (proofCall.done /\ ~proofCall.provided.given /\ proofCall.bytes = NoEntropy)
          => /\ proofCall.thrown
             /\ proofCall.proof = NoProof
             /\ proof = NoProof
    /\ (/\ proofCall.done /\ hashAvailable
         /\ proofCall.provided.given /\ IsSeedFormat(proofCall.provided.text))
          => /\ ~proofCall.thrown
             /\ proofCall.proof.seed = ToLowerCase(proofCall.provided.text)

C23_Witness ==
    /\ seedCall.done /\ seedCall.provided = NotProvided /\ seedCall.bytes = NoEntropy
    /\ seedCall.thrown
    /\ proofCall.done /\ proofCall.provided = NotProvided /\ proofCall.bytes = NoEntropy
    /\ proofCall.thrown
    /\ hashAvailable

\* the shuffleCardsWithSeed calls made by shuffleDeckWithProof
DeckCalls == {r \in BagToSet(calls) : r.op = "shuffleDeckWithProof"}

\* seededShuffle(deck, seed) run on its own to its end
AloneResult(deck, seed, t) ==
    AloneState(deck, seed, t, IF Len(deck) > 0 THEN Len(deck) - 1 ELSE 0)

\* C24: shuffleDeckWithProof returns a proof that passes verifyShuffleProof
\* and the deck as shuffleCardsWithSeed(deck, proof.seed) orders it; for a
\* valid provided seed proof.seed is that seed in lower case, and a second
\* call with proof.seed on the same deck returns the same shuffled deck.
C24_DeckWithProof ==
    \A r \in DeckCalls :
        r.pc = "returned"
            => /\ VerifyShuffleProof(r.proof, hashAvailable).valid
               /\ r.result = MapCards(r.cards,
                                      AloneResult(IndexDeck(Len(r.cards)), r.proof.seed, littleEndian))
               /\ (r.provided.given /\ IsSeedFormat(r.provided.text))
                    => r.proof.seed = ToLowerCase(r.provided.text)
               /\ \A q \in DeckCalls :
                     (/\ q.pc = "returned"
                      /\ q.provided = Provided(r.proof.seed)
                      /\ q.cards = r.cards)
                        => /\ q.proof.seed = r.proof.seed
                           /\ q.result = r.result

C24_Witness ==
    \E r, q \in DeckCalls :
        /\ r.pc = "returned" /\ q.pc = "returned"
        /\ r.provided = Provided(SeedUpper)
        /\ q.provided = Provided(r.proof.seed)
        /\ q.cards = r.cards
        /\ Len(r.cards) = MaxDeck
        /\ r.result # r.cards

\* C25: a shuffle call works on the elements its input array held when the
\* call was made: whatever the caller writes to that array while the call is
\* suspended at a digest await, seededShuffle and shuffleCardsWithSeed return
\* the shuffle of the elements at call time.
C25_OwnCopy ==
    \A r \in BagToSet(calls) :
        r.pc = "returned"
            => CASE r.op = "seededShuffle"
                      -> r.result = AloneResult(r.original, r.seed, littleEndian)
                 [] r.op \in {"shuffleCardsWithSeed", "shuffleDeckWithSeed"}
                      -> r.result = MapCards(r.original,
                                             AloneResult(IndexDeck(Len(r.original)), r.seed, littleEndian))
                 [] OTHER -> TRUE

\* C26: shuffleCardsWithSeed(c, s) has at every position k the card
\* c[seededShuffle([0..n-1], s)[k]], which is the result of seededShuffle's
\* pass run on c itself; and verifyShuffleWithSeed(c, shuffleCardsWithSeed(c, s), s)
\* is true.
C26_WrapperEquivalence ==
    /\ \A r \in CardCalls :
          r.pc = "returned"
            => LET idx == AloneResult(IndexDeck(Len(r.cards)), r.seed, littleEndian)
               IN  /\ Len(r.result) = Len(idx)
                   /\ \A k \in 1..Len(idx) : r.result[k] = JsGet(r.cards, idx[k])
                   /\ r.result = AloneResult(r.cards, r.seed, littleEndian)
    /\ \A v \in VerifyCalls :
          (/\ v.pc = "returned"
           /\ published.made
           /\ v.deck = published.deck
           /\ v.seed = published.seed
           /\ v.claimed = published.result)
            => v.verdict

C26_Witness ==
    \E v \in VerifyCalls :
        /\ v.pc = "returned"
        /\ published.made
        /\ v.deck = CardDeck(MaxDeck)
        /\ v.deck = published.deck
        /\ v.seed = published.seed
        /\ v.claimed = published.result
        /\ v.claimed # v.deck
        /\ \E k \in 1..MaxDeck : /\ v.claimed[k] \in 11..(10 + MaxDeck)
                               /\ v.claimed[k] # v.deck[k]
                               /\ v.claimed[v.claimed[k] - 10] # v.deck[k]
        /\ v.verdict

\* C27: verifyShuffleProof returns valid = false for every proof whose seed is
\* not 64 hexadecimal characters, whatever its seedHash, timestamp and version,
\* the hash of the malformed seed text included.
C27_MalformedSeedInvalid ==
    (outcome.done /\ ~IsSeedFormat(outcome.read.seed)) => ~outcome.valid

\* the sequences of indices a pass over n elements may choose: j in 0..i for
\* i = n-1, ..., 1
ChoiceSeqs(n) ==
    IF n < 2 THEN {<<>>}
    ELSE {c \in [1..(n - 1) -> 0..(n - 1)] : \A k \in 1..(n - 1) : c[k] <= n - k}

\* the output of the pass over IndexDeck(n) under the sequence of indices c
RECURSIVE PassRun(_, _)
PassRun(p, c) ==
    IF Len(c) = 0 THEN p.shuffled
    ELSE PassRun(PassStep(p, Head(c)), Tail(c))

IsPermutationOf(arr, deck) ==
    /\ Len(arr) = Len(deck)
    /\ {arr[k] : k \in 1..Len(arr)} = {deck[k] : k \in 1..Len(deck)}

\* every order of the n distinct elements 0..n-1
Orders(n) == {f \in [1..n -> 0..(n - 1)] : \A a, b \in 1..n : f[a] = f[b] => a = b}

\* C28: when each j lies in 0..i, the map from the sequence of chosen indices
\* (j for i = n-1 down to 1) to the output order of the pass is a bijection
\* onto the permutations of the n distinct elements: a pass finished under
\* such indices holds a permutation, no other such sequence gives the same
\* order, and every order is the output of some such sequence.
C28_PassBijection ==
    (pass.started /\ pass.i <= 0 /\ pass.chosen \in ChoiceSeqs(Len(pass.deck)))
        => LET n == Len(pass.deck)
               out(c) == PassRun(PassBegun(pass.deck), c)
           IN  /\ pass.shuffled = out(pass.chosen)
               /\ IsPermutationOf(pass.shuffled, pass.deck)
               /\ \A c \in ChoiceSeqs(n) \ {pass.chosen} : out(c) # pass.shuffled
               /\ pass.shuffled = pass.deck
                    => \A order \in Orders(n) : \E c \in ChoiceSeqs(n) : out(c) = order

C28_Witness ==
    /\ pass.started
    /\ pass.i = 0
    /\ Len(pass.deck) = MaxPass
    /\ pass.chosen \in ChoiceSeqs(MaxPass)
    /\ \A k \in 1..MaxPass : pass.shuffled[k] # pass.deck[k]

\* C29: a rejected placeBet returns success = false, the input balance and an
\* error; an accepted one returns balance - amount with minBet <= amount <=
\* maxBet and amount <= balance; from a non-negative balance every sequence of
\* placeBet, cancelBet and settleBet keeps the balance non-negative; and
\* placeBet followed by cancelBet of the same amount restores the balance.
C29_BalanceSafety ==
    bank.open
        => /\ (bank.last.op = "placeBet" /\ ~bank.last.success)
                => /\ bank.last.after = bank.last.before
                   /\ bank.last.error # NoError
           /\ (bank.last.op = "placeBet" /\ bank.last.success)
                => /\ bank.last.after = NumSub(bank.last.before, bank.last.amount)
                   /\ bank.last.error = NoError
                   /\ NumLessEq(bank.last.minBet, bank.last.amount)
                   /\ NumLessEq(bank.last.amount, bank.last.maxBet)
                   /\ NumLessEq(bank.last.amount, bank.last.before)
           /\ NumLessEq(Num(0), bank.balance)
           /\ (/\ bank.last.op = "cancelBet"
               /\ ~bank.last.thrown
               /\ bank.prev.op = "placeBet"
               /\ bank.prev.success
               /\ bank.prev.amount = bank.last.amount)
                => bank.balance = bank.prev.before

\* the actions of the entries of a decision log
Actions(decisions) == [k \in 1..Len(decisions) |-> decisions[k].action]

\* what holds of a playDealerHand call at its end
DealerResultOk ==
    /\ dealer.cardIndex <= Len(dealer.availableAtCall)
    /\ dealer.initialCards = dealer.initialAtCall
    /\ dealer.availableCards = dealer.availableAtCall
    /\ dealer.pc = "thrown"
         => /\ ShouldDealerHit(dealer.currentCards, dealer.rules)
            /\ dealer.cardIndex = Len(dealer.availableAtCall)
    /\ dealer.pc = "returned"
         => LET k == Len(dealer.decisions) - 1
            IN  /\ k >= 0
                /\ k <= Len(dealer.availableAtCall)
                /\ Actions(dealer.decisions) = [n \in 1..(k + 1) |->
                                                   IF n <= k THEN "hit" ELSE "stand"]
                /\ dealer.finalCards = dealer.initialAtCall \o SubSeq(dealer.availableAtCall, 1, k)
                /\ ~ShouldDealerHit(dealer.finalCards, dealer.rules)

\* C30: playDealerHand always terminates: it throws when a hit is decided
\* with no card left, or returns k 'hit' decisions followed by one 'stand',
\* finalCards being the initial cards followed by the first k available cards,
\* on which shouldDealerHit is false; neither input array is modified.
C30_DealerTerminates ==
    /\ []DealerResultOk
    /\ (dealer.pc = "loop") ~> (dealer.pc \in {"returned", "thrown"})

C30_Witness ==
    /\ dealer.pc = "returned"
    /\ Len(dealer.decisions) = MaxAvailable + 1
    /\ Len(dealer.initialAtCall) = 2
    /\ dealer.finalCards[Len(dealer.finalCards)] # dealer.finalCards[Len(dealer.finalCards) - 1]

====
